---- MODULE Spec2Model ----
(***************************************************************************)
(* Model of go-thai-id-card-reader: the broadcast hub                      *)
(* (internal/infra/websocket/hub.go), the reader monitor and protocol      *)
(* engine (internal/infra/smartcard/pcsc_reader.go) and the event handlers *)
(* wired in cmd/card-service/main.go.                                      *)
(***************************************************************************)
EXTENDS Integers, Sequences, FiniteSets, TLC

(***************************************************************************)
(* Bounds of the model.                                                    *)
(***************************************************************************)
\* Number of websocket connections that may ever be accepted.
NumClients == 2
\* Capacity of a client's send channel.  hub.go:95 makes it 256; the model
\* keeps the capacity symbolic and small so that a queue actually fills.
QueueCap == 2
\* Number of BroadcastMessage calls the abstract caller of SpecHub makes:
\* enough to fill a queue, overflow it, and send one more.
MaxMsgs == QueueCap + 2
\* Number of photo chunks the cards of SpecPhoto answer, and the greatest
\* number of bytes in one of them.
LiveChunks == 2
MaxChunkLen == 2
\* Greatest number of '#'-separated segments in a raw address of SpecAddr
\* (the documented example, which has five, is one more of them).
MaxSegments == 4
\* Greatest number of null bytes before and after a date field of SpecDate.
MaxPad == 1
\* Number of reader slots.
NumSlots == 2
\* Cap of the history counters of consecutive ticks.
MaxRun == 3

Clients == 1..NumClients

\* A pointer, an error or a channel slot is Nil or holds one value.
Nil == <<>>
Ref(v) == <<v>>
\* An error value with the given Error() text, and the text of an error.
Err(msg) == <<msg>>
ErrorOf(e) == e[1]

(***************************************************************************)
(* Error codes and messages (domain/message.go:13-25).                     *)
(***************************************************************************)
ErrCodeReaderNotFound == 1001
ErrMsgReaderNotFound == "No smart card reader found."
ErrCodeCardNotDetected == 1002
ErrMsgCardNotDetected == "No smart card detected in the reader."
ErrCodeReadFailed == 1003
ErrMsgReadFailed == "Failed to read data from the smart card."
ErrCodeUnsupportedCard == 1004
ErrMsgUnsupportedCard == "The inserted card is not a supported Thai ID card."

(***************************************************************************)
(* Byte strings.  Card data and decoded text are sequences of numbers      *)
(* (bytes, or code points after decoding); error messages are strings.     *)
(***************************************************************************)
Min(S) == CHOOSE x \in S : \A y \in S : x <= y
Max(S) == CHOOSE x \in S : \A y \in S : x >= y

\* bytes.Trim(s, cutset): drop leading and trailing elements that are in cut.
Trim(s, cut) ==
    LET keep == {i \in 1..Len(s) : s[i] \notin cut}
    IN  IF keep = {} THEN <<>> ELSE SubSeq(s, Min(keep), Max(keep))

\* bytes.TrimRight(s, cutset).
TrimRight(s, cut) ==
    LET keep == {i \in 1..Len(s) : s[i] \notin cut}
    IN  IF keep = {} THEN <<>> ELSE SubSeq(s, 1, Max(keep))

\* bytes.Split(s, sep) / strings.Split for a one-element separator: the
\* pieces between the separators, always at least one piece.
Split(s, sep) ==
    LET cuts == {i \in 1..Len(s) : s[i] = sep}
        n == Cardinality(cuts)
        \* position of the k-th separator; 0 and Len(s)+1 are the two ends
        at(k) == IF k = 0 THEN 0
                 ELSE IF k = n + 1 THEN Len(s) + 1
                 ELSE CHOOSE i \in cuts : Cardinality({j \in cuts : j < i}) = k - 1
    IN  [k \in 1..(n + 1) |-> SubSeq(s, at(k - 1) + 1, at(k) - 1)]

\* bytes.Index(s, sep): first position (0-based) of sep in s, or -1.
Index(s, sep) ==
    LET hits == {i \in 1..(Len(s) - Len(sep) + 1) : SubSeq(s, i, i + Len(sep) - 1) = sep}
    IN  IF hits = {} THEN -1 ELSE Min(hits) - 1

HexDigits == <<"0", "1", "2", "3", "4", "5", "6", "7", "8", "9", "A", "B", "C", "D", "E", "F">>
\* fmt verb %02X of one byte.
Hex2(b) == HexDigits[(b \div 16) + 1] \o HexDigits[(b % 16) + 1]

(***************************************************************************)
(* Field decoder (pcsc_reader.go:340-367).                                 *)
(***************************************************************************)
\* charmap.Windows874: one byte to one code point; the decoder substitutes
\* U+FFFD for an unassigned byte and does not fail.
Windows874(b) ==
    IF b < 128 THEN b
    ELSE IF b = 128 THEN 8364
    ELSE IF b = 133 THEN 8230
    ELSE IF b \in 145..151 THEN <<8216, 8217, 8220, 8221, 8226, 8211, 8212>>[b - 144]
    ELSE IF b <= 160 THEN b
    ELSE IF b \in 161..218 \/ b \in 223..251 THEN 3585 + (b - 161)
    ELSE 65533

\* PCSCReader.decodeThaiString (pcsc_reader.go:340-349).
decodeThaiString(data) ==
    Trim([i \in 1..Len(data) |-> Windows874(data[i])], {0})

IsDigit(ch) == ch \in 48..57

\* fmt.Sscanf(year, "%d", &thaiYear) with the error ignored: leading spaces
\* and one sign are skipped, then the run of digit-or-underscore characters
\* is converted; with no digits, or an underscore in the run, nothing is
\* stored and thaiYear keeps its zero value.
ScanInt(str) ==
    LET nsp == {i \in 1..Len(str) : str[i] # 32}
        b0 == IF nsp = {} THEN Len(str) + 1 ELSE Min(nsp)
        neg == b0 <= Len(str) /\ str[b0] = 45
        b1 == IF b0 <= Len(str) /\ str[b0] \in {43, 45} THEN b0 + 1 ELSE b0
        stop == {i \in b1..Len(str) : ~(IsDigit(str[i]) \/ str[i] = 95)}
        e1 == IF stop = {} THEN Len(str) ELSE Min(stop) - 1
        tok == SubSeq(str, b1, e1)
        val[i \in 0..Len(tok)] ==
            IF i = 0 THEN 0 ELSE 10 * val[i - 1] + (tok[i] - 48)
    IN  IF tok = <<>> \/ \E i \in 1..Len(tok) : tok[i] = 95 THEN 0
        ELSE IF neg THEN 0 - val[Len(tok)] ELSE val[Len(tok)]

\* The decimal digits of n >= 0, most significant first.
RECURSIVE Digits(_)
Digits(n) == IF n < 10 THEN <<48 + n>> ELSE Digits(n \div 10) \o <<48 + (n % 10)>>

\* fmt verb %04d: zero padding to width 4, the sign counted in the width.
Pad04(n) ==
    LET d == Digits(IF n < 0 THEN 0 - n ELSE n)
        w == IF n < 0 THEN 3 ELSE 4
        z == [i \in 1..(IF Len(d) < w THEN w - Len(d) ELSE 0) |-> 48]
    IN  (IF n < 0 THEN <<45>> ELSE <<>>) \o z \o d

\* Offset between the Buddhist Era and the Gregorian calendar
\* (pcsc_reader.go:364).
BuddhistOffset == 543

\* PCSCReader.formatDate (pcsc_reader.go:351-367).
formatDate(dateStr) ==
    LET str == Trim(dateStr, {0})
    IN  IF Len(str) < 8 THEN <<>>
        ELSE LET year == SubSeq(str, 1, 4)
                 month == SubSeq(str, 5, 6)
                 day == SubSeq(str, 7, 8)
                 gregorianYear == ScanInt(year) - BuddhistOffset
             IN  Pad04(gregorianYear) \o <<45>> \o month \o <<45>> \o day

\* base64.StdEncoding alphabet, as character codes.
Base64Char(v) ==
    IF v < 26 THEN 65 + v
    ELSE IF v < 52 THEN 97 + (v - 26)
    ELSE IF v < 62 THEN 48 + (v - 52)
    ELSE IF v = 62 THEN 43 ELSE 47

\* base64.StdEncoding.EncodeToString (pcsc_reader.go:220): three bytes to
\* four characters, the last group padded with '='.
RECURSIVE EncodeToString(_)
EncodeToString(b) ==
    IF b = <<>> THEN <<>>
    ELSE LET n == IF Len(b) >= 3 THEN 3 ELSE Len(b)
             b1 == b[1]
             b2 == IF n >= 2 THEN b[2] ELSE 0
             b3 == IF n >= 3 THEN b[3] ELSE 0
             v == (b1 * 65536) + (b2 * 256) + b3
             c1 == Base64Char(v \div 262144)
             c2 == Base64Char((v \div 4096) % 64)
             c3 == IF n >= 2 THEN Base64Char((v \div 64) % 64) ELSE 61
             c4 == IF n >= 3 THEN Base64Char(v % 64) ELSE 61
         IN  <<c1, c2, c3, c4>> \o EncodeToString(SubSeq(b, n + 1, Len(b)))

(***************************************************************************)
(* Address tokenizer (domain.ParseThaiAddress).  Text is a sequence of     *)
(* code points.                                                            *)
(***************************************************************************)
\* The prefix tokens, spelled as code points.
Changwat == <<3592, 3633, 3591, 3627, 3623, 3633, 3604>>   \* province
MooThi == <<3627, 3617, 3641, 3656, 3607, 3637, 3656>>     \* village
Soi == <<3595, 3629, 3618>>                                \* alley
Tambon == <<3605, 3635, 3610, 3621>>                       \* subdistrict
Khwaeng == <<3649, 3586, 3623, 3591>>                      \* subdistrict (Bangkok)
Amphoe == <<3629, 3635, 3648, 3616, 3629>>                 \* district
Khet == <<3648, 3586, 3605>>                               \* district (Bangkok)

\* unicode.IsSpace, the cut set of strings.TrimSpace.
WhiteSpace == (9..13) \cup {32, 133, 160, 5760, 8232, 8233, 8239, 8287, 12288}
                  \cup (8192..8202)
TrimSpace(s) == Trim(s, WhiteSpace)
HasPrefix(s, p) == Len(s) >= Len(p) /\ SubSeq(s, 1, Len(p)) = p
TrimPrefix(s, p) == IF HasPrefix(s, p) THEN SubSeq(s, Len(p) + 1, Len(s)) ELSE s
Contains(s, p) == Index(s, p) # -1

\* strings.Join(parts, " ").
RECURSIVE Join(_)
Join(parts) ==
    IF parts = <<>> THEN <<>>
    ELSE IF Len(parts) = 1 THEN parts[1]
    ELSE parts[1] \o <<32>> \o Join(Tail(parts))

\* &Address{} (part_000:5-14).
EmptyAddress ==
    [HouseNo |-> <<>>, Moo |-> <<>>, Soi |-> <<>>, Street |-> <<>>,
     Subdistrict |-> <<>>, District |-> <<>>, Province |-> <<>>,
     FullAddress |-> <<>>]

\* One iteration of the loop over the middle parts (part_000:78-103).
ClassifyPart(addr, raw) ==
    LET part == TrimSpace(raw)
    IN  IF part = <<>> THEN addr
        ELSE IF HasPrefix(part, MooThi)
            THEN [addr EXCEPT !.Moo = TrimSpace(TrimPrefix(part, MooThi))]
        ELSE IF HasPrefix(part, Soi)
            THEN [addr EXCEPT !.Soi = TrimSpace(TrimPrefix(part, Soi))]
        ELSE IF HasPrefix(part, Tambon) \/ HasPrefix(part, Khwaeng)
            THEN [addr EXCEPT !.Subdistrict =
                      TrimSpace(TrimPrefix(TrimPrefix(part, Tambon), Khwaeng))]
        ELSE IF HasPrefix(part, Amphoe) \/ HasPrefix(part, Khet)
            THEN [addr EXCEPT !.District =
                      TrimSpace(TrimPrefix(TrimPrefix(part, Amphoe), Khet))]
        ELSE IF HasPrefix(part, Changwat)
            THEN [addr EXCEPT !.Province = TrimSpace(TrimPrefix(part, Changwat))]
        ELSE IF addr.Street = <<>>
            THEN [addr EXCEPT !.Street = part]
        ELSE addr

\* The loop over parts[i], i from 1 to endIdx-1 counted from 0, which are
\* parts[from]..parts[to] counted from 1.
RECURSIVE ClassifyParts(_, _, _, _)
ClassifyParts(addr, parts, from, to) ==
    IF from > to THEN addr
    ELSE ClassifyParts(ClassifyPart(addr, parts[from]), parts, from + 1, to)

\* The raw input in place of the rebuild.
BuildVerbatim(addr, addressStr) == addressStr

\* The rebuild of fullAddress (part_000:105-137).
BuildFullAddress(addr, addressStr) ==
    LET one(cond, text) == IF cond THEN <<text>> ELSE <<>>
        subPrefix == IF Contains(addressStr, Khwaeng) THEN Khwaeng ELSE Tambon
        disPrefix == IF Contains(addressStr, Khet) THEN Khet ELSE Amphoe
    IN  Join(one(addr.HouseNo # <<>>, addr.HouseNo)
             \o one(addr.Moo # <<>>, MooThi \o <<32>> \o addr.Moo)
             \o one(addr.Soi # <<>>, Soi \o addr.Soi)
             \o one(addr.Street # <<>>, addr.Street)
             \o one(addr.Subdistrict # <<>>, subPrefix \o addr.Subdistrict)
             \o one(addr.District # <<>>, disPrefix \o addr.District)
             \o one(addr.Province # <<>>, Changwat \o addr.Province))

\* The loop classifies every part.
EndIdxWhole(n) == n

\* endIdx (part_000:73-76): the loop stops before the last of n parts.
EndIdx(n) == IF n - 1 < 1 THEN n ELSE n - 1

\* domain.ParseThaiAddress (part_000:42-139); nil for the empty string.
ParseThaiAddress(addressStr) ==
    IF addressStr = <<>> THEN Nil
    ELSE IF Len(Split(addressStr, 35)) = 0
        THEN Ref([EmptyAddress EXCEPT !.FullAddress = addressStr])
    ELSE LET parts == Split(addressStr, 35)
             n == Len(parts)
             a0 == IF parts[1] # <<>>
                     THEN [EmptyAddress EXCEPT !.HouseNo = TrimSpace(parts[1])]
                     ELSE EmptyAddress
             lastPart == TrimSpace(parts[n])
             a1 == IF n > 1 /\ lastPart # <<>>
                     THEN [a0 EXCEPT !.Province =
                              IF HasPrefix(lastPart, Changwat)
                                THEN TrimSpace(TrimPrefix(lastPart, Changwat))
                                ELSE lastPart]
                     ELSE a0
             endIdx == EndIdx(n)
             a2 == ClassifyParts(a1, parts, 2, endIdx)
         IN  Ref([a2 EXCEPT !.FullAddress = BuildFullAddress(a2, addressStr)])

(***************************************************************************)
(* Protocol engine (pcsc_reader.go:139-338).  A transmit yields a response *)
(* [err, rsp]: err is the transport error (Nil if none), rsp the bytes.    *)
(* An exchange <<r1, r2>> is what the card answers to one command and to   *)
(* the GET RESPONSE that may follow it.  A card is                         *)
(* [select, fields, photo]: its exchanges for the select command, for the  *)
(* eight field reads and for the photo chunks.                             *)
(***************************************************************************)
SelectCmd == <<0, 164, 4, 0, 8, 160, 0, 0, 0, 84, 72, 0, 1>>
GetResponseCmd(sw2) == <<0, 192, 0, 0, sw2>>
ReadBinaryCmd(p1, p2, le) == <<128, 176, p1, p2, 2, 0, le>>

\* A status word read from the head of the response.
SW1AtHead(rsp) == rsp[1]

SW1(rsp) == rsp[Len(rsp) - 1]
SW2(rsp) == rsp[Len(rsp)]

\* PCSCReader.selectApplet (pcsc_reader.go:226-267): the error (Nil on
\* success) and the commands transmitted.
selectApplet(x) ==
    LET r1 == x[1]
        r2 == x[2]
        final(rsp, cmds) ==
            LET sw1 == SW1(rsp)
                sw2 == SW2(rsp)
            IN  IF (sw1 = 144 /\ sw2 = 0) \/ (sw1 = 151 /\ sw2 = 16)
                  THEN [err |-> Nil, cmds |-> cmds]
                ELSE IF sw1 = 106 /\ sw2 = 130
                  THEN [err |-> Err("applet not found (SW=" \o Hex2(sw1) \o Hex2(sw2)
                                       \o ") - card may need reset"),
                        cmds |-> cmds]
                ELSE [err |-> Err("select applet failed: SW=" \o Hex2(sw1) \o Hex2(sw2)),
                      cmds |-> cmds]
    IN  IF r1.err # Nil THEN [err |-> r1.err, cmds |-> <<SelectCmd>>]
        ELSE IF Len(r1.rsp) < 2
            THEN [err |-> Err("invalid response"), cmds |-> <<SelectCmd>>]
        ELSE IF SW1(r1.rsp) = 97
            THEN LET cmds == <<SelectCmd, GetResponseCmd(SW2(r1.rsp))>>
                 IN  IF r2.err # Nil
                       THEN [err |-> Err("GET RESPONSE failed: " \o ErrorOf(r2.err)),
                             cmds |-> cmds]
                     ELSE IF Len(r2.rsp) < 2
                       THEN [err |-> Err("invalid GET RESPONSE"), cmds |-> cmds]
                     ELSE final(r2.rsp, cmds)
        ELSE final(r1.rsp, <<SelectCmd>>)

\* PCSCReader.readBinary (pcsc_reader.go:269-305): the data, the error (Nil
\* on success) and the commands transmitted.
readBinary(x, p1, p2, le) ==
    LET r1 == x[1]
        r2 == x[2]
        c1 == <<ReadBinaryCmd(p1, p2, le)>>
        final(rsp, cmds) ==
            IF SW1(rsp) # 144 \/ SW2(rsp) # 0
              THEN [data |-> Nil,
                    err |-> Err("read binary failed: SW=" \o Hex2(SW1(rsp)) \o Hex2(SW2(rsp))),
                    cmds |-> cmds]
              ELSE [data |-> SubSeq(rsp, 1, Len(rsp) - 2), err |-> Nil, cmds |-> cmds]
    IN  IF r1.err # Nil THEN [data |-> Nil, err |-> r1.err, cmds |-> c1]
        ELSE IF Len(r1.rsp) < 2
            THEN [data |-> Nil, err |-> Err("invalid response"), cmds |-> c1]
        ELSE IF SW1(r1.rsp) = 97
            THEN LET cmds == c1 \o <<GetResponseCmd(SW2(r1.rsp))>>
                 IN  IF r2.err # Nil THEN [data |-> Nil, err |-> r2.err, cmds |-> cmds]
                     ELSE IF Len(r2.rsp) < 2
                       THEN [data |-> Nil, err |-> Err("invalid GET RESPONSE"), cmds |-> cmds]
                     ELSE final(r2.rsp, cmds)
        ELSE final(r1.rsp, c1)

\* photoCommands (pcsc_reader.go:311-316): p1, p2 of the 20 parts.
photoCommands == [i \in 1..20 |-> <<i, 124 - i>>]

\* A chunk loop that leaves out a chunk whose read fails and goes on.
RECURSIVE readChunksSkipping(_, _)
readChunksSkipping(photo, i) ==
    IF i > 20 THEN [data |-> <<>>, cmds |-> <<>>]
    ELSE LET r == readBinary(photo[i], i, 124 - i, 255)
             rest == readChunksSkipping(photo, i + 1)
         IN  [data |-> (IF r.err # Nil THEN <<>> ELSE r.data) \o rest.data,
              cmds |-> r.cmds \o rest.cmds]

\* The chunk loop of readPhoto (pcsc_reader.go:318-325), from chunk i on:
\* it stops at the first chunk whose read fails.
RECURSIVE readChunks(_, _)
readChunks(photo, i) ==
    IF i > Len(photoCommands) THEN [data |-> <<>>, cmds |-> <<>>]
    ELSE LET r == readBinary(photo[i], photoCommands[i][1], photoCommands[i][2], 255)
         IN  IF r.err # Nil THEN [data |-> <<>>, cmds |-> r.cmds]
             ELSE LET rest == readChunks(photo, i + 1)
                  IN  [data |-> r.data \o rest.data, cmds |-> r.cmds \o rest.cmds]

\* The trimming of readPhoto (pcsc_reader.go:327-337).
trimPhoto(photoData) ==
    LET jpegEnd == Index(photoData, <<255, 217>>)
    IN  IF jpegEnd # -1 THEN SubSeq(photoData, 1, jpegEnd + 2)
        ELSE TrimRight(photoData, {32})

\* PCSCReader.readPhoto (pcsc_reader.go:307-338); its error is always nil.
readPhoto(photo) ==
    LET r == readChunks(photo, 1)
    IN  [data |-> trimPhoto(r.data), err |-> Nil, cmds |-> r.cmds]

\* &domain.ThaiIdCard{} (part_000:16-32).
EmptyCard ==
    [CitizenID |-> <<>>, PrefixNameTH |-> <<>>, FirstNameTH |-> <<>>,
     MiddleNameTH |-> <<>>, LastNameTH |-> <<>>, PrefixNameEN |-> <<>>,
     FirstNameEN |-> <<>>, MiddleNameEN |-> <<>>, LastNameEN |-> <<>>,
     DateOfBirth |-> <<>>, Gender |-> "", Address |-> Nil, IssueDate |-> <<>>,
     ExpireDate |-> <<>>, PhotoBase64 |-> <<>>]

\* The eight field reads of readCard in program order: p1, p2, le
\* (pcsc_reader.go:150, 158, 170, 182, 188, 199, 205, 211).
FieldReads ==
    <<<<0, 4, 13>>, <<0, 17, 100>>, <<0, 117, 100>>, <<0, 217, 8>>,
      <<0, 225, 1>>, <<1, 103, 8>>, <<1, 111, 8>>, <<21, 121, 100>>>>

\* The two leading '#'-separated pieces of a name field, trimmed
\* (pcsc_reader.go:162-166, 174-178); empty when there are fewer than two.
NameParts(names) ==
    LET parts == Split(names, 35)
    IN  IF Len(parts) >= 2
          THEN <<Trim(parts[1], {32, 0}), Trim(parts[2], {32, 0})>>
          ELSE <<<<>>, <<>>>>

\* readCard after the selection (pcsc_reader.go:147-223): the eight field
\* reads and the photo, each filling its fields only if its read succeeded.
\* cmds are the commands transmitted so far.
readFields(card, cmds) ==
    LET rd(i) == readBinary(card.fields[i], FieldReads[i][1], FieldReads[i][2],
                            FieldReads[i][3])
        ok(i) == rd(i).err = Nil
        th == NameParts(decodeThaiString(rd(2).data))
        en == NameParts(Trim(rd(3).data, {0}))
        ph == readPhoto(card.photo)
        rec == [EmptyCard EXCEPT
            !.CitizenID = IF ok(1) THEN Trim(rd(1).data, {0}) ELSE @,
            !.FirstNameTH = IF ok(2) THEN th[1] ELSE @,
            !.LastNameTH = IF ok(2) THEN th[2] ELSE @,
            !.FirstNameEN = IF ok(3) THEN en[1] ELSE @,
            !.LastNameEN = IF ok(3) THEN en[2] ELSE @,
            !.DateOfBirth = IF ok(4) THEN formatDate(rd(4).data) ELSE @,
            !.Gender = IF ok(5) /\ Len(rd(5).data) >= 1
                         THEN (IF rd(5).data[1] = 49 THEN "male"
                               ELSE IF rd(5).data[1] = 50 THEN "female" ELSE @)
                         ELSE @,
            !.IssueDate = IF ok(6) THEN formatDate(rd(6).data) ELSE @,
            !.ExpireDate = IF ok(7) THEN formatDate(rd(7).data) ELSE @,
            !.Address = IF ok(8)
                          THEN ParseThaiAddress(decodeThaiString(rd(8).data))
                          ELSE @,
            !.PhotoBase64 = IF ph.err = Nil /\ Len(ph.data) > 0
                              THEN EncodeToString(ph.data) ELSE @]
    IN  [card |-> Ref(rec), err |-> Nil,
         cmds |-> cmds \o rd(1).cmds \o rd(2).cmds \o rd(3).cmds \o rd(4).cmds
                    \o rd(5).cmds \o rd(6).cmds \o rd(7).cmds \o rd(8).cmds
                    \o ph.cmds]

\* A readCard that reports a failed selection as an absent card.
SelectionErrorNoCard(err) == Err(ErrMsgCardNotDetected)

\* The error readCard returns when the selection fails (pcsc_reader.go:144).
SelectionError(err) == Err(ErrMsgUnsupportedCard \o ": " \o ErrorOf(err))

\* readCard giving up at the first field whose read fails.
readCardStrict(card) ==
    LET sel == selectApplet(card.select)
        r == readFields(card, sel.cmds)
        bad == {i \in 1..8 : readBinary(card.fields[i], FieldReads[i][1],
                                        FieldReads[i][2], FieldReads[i][3]).err # Nil}
    IN  IF sel.err # Nil
          THEN [card |-> Nil, err |-> SelectionError(sel.err), cmds |-> sel.cmds]
        ELSE IF bad # {}
          THEN [card |-> Nil, err |-> Err(ErrMsgReadFailed), cmds |-> r.cmds]
        ELSE r

\* PCSCReader.readCard (pcsc_reader.go:139-224): the record (Nil on error),
\* the error (Nil on success) and the commands transmitted, in order.
readCard(card) ==
    LET sel == selectApplet(card.select)
    IN  IF sel.err # Nil
          THEN [card |-> Nil, err |-> SelectionError(sel.err), cmds |-> sel.cmds]
          ELSE readFields(card, sel.cmds)

VARIABLES
    \* ---- Hub (hub.go:20-26) and Client (hub.go:12-18) ----
    clients,      \* h.clients: the live set
    send,         \* client.send: buffered channel contents, per client
    sendClosed,   \* whether close(client.send) has happened, per client
    closed,       \* client.closed, per client
    broadcast,    \* the value a BroadcastMessage caller offers on h.broadcast, or Nil
    hpc,          \* position of the Hub.Run goroutine
    hmsg,         \* Hub.Run: message of the fan-out in progress (or the last one)
    snap,         \* Hub.Run: entries of the snapshot slice not yet visited
    hcur,         \* Hub.Run: the client the hub is unregistering, or 0
    cpc,          \* per client: position of WebSocketHandler/RegisterClient
    rpc,          \* per client: position of ReadPump
    wpc,          \* per client: position of WritePump
    \* ---- caller of BroadcastMessage in SpecHub ----
    nextMsg,      \* index of the next message the caller will broadcast
    \* ---- history (observations, not program state) ----
    recv,         \* per client: every message ever placed on client.send, in order
    fan,          \* per client: outcome of the visit in the current fan-out
    \* ---- PCSCReader.monitorLoop (pcsc_reader.go:61-137) and the handlers ----
    mpc,          \* position of the monitorLoop goroutine
    lastState,    \* lastState: the presence flag of each slot
    readers,      \* the readers of this tick's listing not yet visited
    card,         \* the session monitorLoop holds (Ref(slot)), or Nil
    outbox,       \* messages the running handler has still to broadcast
    retry,        \* the retry counter of the read loop
    \* ---- history of the monitor (observations, not program state) ----
    listed,       \* outcome of this tick's ListReaders: "err", "empty", "some"
    cur,          \* the visit of a slot in progress, or just made: what happened
    ev,           \* the messages offered to the hub in that visit (or empty tick)
    seen,         \* slots whose connect succeeded in this tick
    watch,        \* the slot whose runs are counted: any one, chosen at the first tick
    okRun,        \* consecutive ticks whose connect to the watched slot succeeded
    insRun,       \* insert-handler invocations for it in those ticks
    okAtt,        \* consecutive connect attempts to it that succeeded
    insAtt,       \* insert-handler invocations for it in those attempts
    emptyRun,     \* consecutive ticks whose listing was empty
    sess,         \* the session calls of the last visit of this tick, in order
    lastEvent,    \* the handler last called for the watched slot: "insertion",
                  \* "removal", or "none"
    \* ---- PCSCReader.StopMonitoring (pcsc_reader.go:46-51) and its caller ----
    monitoring,   \* r.monitoring
    spc,          \* position of the caller: "idle", "sending", "returned"
    stopAt,       \* history: what monitorLoop was doing when the call was made
    loops,        \* the number of monitorLoop goroutines started and not returned
    \* ---- one readCard call on its own (SpecCard) ----
    inCard,       \* the card the session talks to
    result,       \* what readCard returned and the handler broadcast, or Nil
    \* ---- one call of a function of the engine on its own ----
    call          \* the function called, its argument and what it returned, or Nil

hubVars == <<clients, send, sendClosed, closed, broadcast, hpc, hmsg, snap, hcur,
             cpc, rpc, wpc, nextMsg, recv, fan>>

monVars == <<mpc, lastState, readers, card, outbox, retry, listed, cur, ev, seen,
             watch, okRun, insRun, okAtt, insAtt, emptyRun, sess, monitoring, spc,
             stopAt, lastEvent, loops>>

engVars == <<inCard, result, call>>

vars == <<hubVars, monVars, engVars>>

(***************************************************************************)
(* Hub                                                                     *)
(***************************************************************************)

\* The clients some goroutine is blocked offering on h.register.
register == {c \in Clients : cpc[c] = "registering"}

\* The clients some goroutine is blocked offering on h.unregister: a ReadPump
\* in its deferred unregisterClient, or Hub.Run itself (hub.go:70 -> hub.go:107).
unregister ==
    {c \in Clients : rpc[c] = "unregistering"}
        \cup (IF hpc = "unregisterClient" THEN {hcur} ELSE {})

\* json.Marshal of domain.WebSocketMessage{Type, Payload} (hub.go:78-83):
\* the envelope, fields in declaration order.
Marshal(messageType, payload) == [type |-> messageType, payload |-> payload]

\* Hub.RegisterClient up to its channel send (hub.go:92-98): a fresh client
\* with an empty buffered send channel, offered on h.register.
RegisterClient(c) ==
    /\ cpc[c] = "new"
    /\ cpc' = [cpc EXCEPT ![c] = "registering"]
    /\ send' = [send EXCEPT ![c] = <<>>]
    /\ UNCHANGED <<clients, sendClosed, closed, broadcast, hpc, hmsg, snap, hcur,
                   rpc, wpc, nextMsg, recv, fan>>
    /\ UNCHANGED <<monVars, engVars>>

\* Hub.Run, case client := <-h.register (hub.go:40-44).  The send completes,
\* RegisterClient returns and WebSocketHandler starts both pumps
\* (handler.go:36-40).
HubRegister(c) ==
    /\ hpc = "select"
    /\ c \in register
    /\ clients' = clients \cup {c}
    /\ cpc' = [cpc EXCEPT ![c] = "open"]
    /\ rpc' = [rpc EXCEPT ![c] = "reading"]
    /\ wpc' = [wpc EXCEPT ![c] = "running"]
    /\ UNCHANGED <<send, sendClosed, closed, broadcast, hpc, hmsg, snap, hcur,
                   nextMsg, recv, fan>>
    /\ UNCHANGED <<monVars, engVars>>

\* An unregister case that closes the queue and leaves the client in the
\* live set.
HubUnregisterKeepsClient(c) ==
    /\ hpc = "select"
    /\ rpc[c] = "unregistering"
    /\ sendClosed' = [sendClosed EXCEPT ![c] = TRUE]
    /\ rpc' = [rpc EXCEPT ![c] = "done"]
    /\ UNCHANGED <<clients, send, closed, broadcast, hpc, hmsg, snap, hcur, cpc, wpc,
                   nextMsg, recv, fan>>
    /\ UNCHANGED <<monVars, engVars>>

\* Hub.Run, case client := <-h.unregister (hub.go:46-55).  Only a goroutine
\* other than Hub.Run can be the sender here: while Hub.Run offers a client
\* itself it is not at the select.
HubUnregister(c) ==
    /\ hpc = "select"
    /\ rpc[c] = "unregistering"
    /\ IF c \in clients
         THEN /\ clients' = clients \ {c}
              /\ sendClosed' = [sendClosed EXCEPT ![c] = TRUE]
         ELSE UNCHANGED <<clients, sendClosed>>
    /\ rpc' = [rpc EXCEPT ![c] = "done"]
    /\ UNCHANGED <<send, closed, broadcast, hpc, hmsg, snap, hcur, cpc, wpc,
                   nextMsg, recv, fan>>
    /\ UNCHANGED <<monVars, engVars>>

\* Hub.Run, case message := <-h.broadcast, up to the snapshot (hub.go:57-63).
\* The caller's send completes and BroadcastMessage returns.  With no client
\* the loop body never runs, the iteration is over and message is dead.
HubRecvBroadcast ==
    /\ hpc = "select"
    /\ broadcast # Nil
    /\ hmsg' = IF clients = {} THEN Nil ELSE broadcast[1]
    /\ broadcast' = Nil
    /\ snap' = clients
    /\ fan' = [c \in Clients |-> "none"]
    /\ hpc' = IF clients = {} THEN "select" ELSE "fanout"
    /\ UNCHANGED <<clients, send, sendClosed, closed, hcur, cpc, rpc, wpc,
                   nextMsg, recv>>
    /\ UNCHANGED <<monVars, engVars>>

\* The history h with the message m added; a history holds the first MaxMsgs
\* messages.
Remember(h, m) == IF Len(h) < MaxMsgs THEN Append(h, m) ELSE h

\* Position of Hub.Run after it has dealt with snapshot entry c.
AfterVisit(c) == IF snap \ {c} = {} THEN "select" ELSE "fanout"

\* One iteration of the fan-out loop, case client.send <- message
\* (hub.go:65-67): the buffer has room.  The snapshot is visited in any order
\* (the slice is filled by ranging over a map).  A send on a closed channel
\* panics.
HubFanoutSend(c) ==
    /\ hpc = "fanout"
    /\ c \in snap
    /\ Len(send[c]) < QueueCap
    /\ IF sendClosed[c]
         THEN /\ hpc' = "panic"
              /\ UNCHANGED <<send, recv, fan, snap>>
         ELSE /\ send' = [send EXCEPT ![c] = Append(@, hmsg)]
              /\ recv' = [recv EXCEPT ![c] = Remember(@, hmsg)]
              /\ fan' = [fan EXCEPT ![c] = "sent"]
              /\ snap' = snap \ {c}
              /\ hpc' = AfterVisit(c)
    /\ UNCHANGED <<clients, sendClosed, closed, broadcast, hmsg, hcur, cpc, rpc,
                   wpc, nextMsg>>
    /\ UNCHANGED <<monVars, engVars>>

\* One iteration of the fan-out loop, default case (hub.go:68-71): the buffer
\* is full and Hub.Run calls unregisterClient (hub.go:102-111).  If the client
\* is not yet closed, Hub.Run sets the flag and sends on h.unregister, an
\* unbuffered channel whose only receiver is Hub.Run itself.
HubFanoutFull(c) ==
    /\ hpc = "fanout"
    /\ c \in snap
    /\ Len(send[c]) = QueueCap
    /\ fan' = [fan EXCEPT ![c] = IF closed[c] THEN "fullClosing" ELSE "full"]
    /\ snap' = snap \ {c}
    /\ IF ~closed[c]
         THEN /\ closed' = [closed EXCEPT ![c] = TRUE]
              /\ hcur' = c
              /\ hpc' = "unregisterClient"
         ELSE /\ hpc' = AfterVisit(c)
              /\ UNCHANGED <<closed, hcur>>
    /\ UNCHANGED <<clients, send, sendClosed, broadcast, hmsg, cpc, rpc, wpc,
                   nextMsg, recv>>
    /\ UNCHANGED <<monVars, engVars>>

\* Client.ReadPump (hub.go:129-148): ReadMessage fails (the peer went away or
\* the connection was closed) and the deferred unregisterClient runs
\* (hub.go:102-111).
ReadPumpDisconnect(c) ==
    /\ rpc[c] = "reading"
    /\ IF ~closed[c]
         THEN /\ closed' = [closed EXCEPT ![c] = TRUE]
              /\ rpc' = [rpc EXCEPT ![c] = "unregistering"]
         ELSE /\ rpc' = [rpc EXCEPT ![c] = "done"]
              /\ UNCHANGED closed
    /\ UNCHANGED <<clients, send, sendClosed, broadcast, hpc, hmsg, snap, hcur,
                   cpc, wpc, nextMsg, recv, fan>>
    /\ UNCHANGED <<monVars, engVars>>

\* Client.WritePump (hub.go:113-127), one iteration of the range loop: take
\* the next message; the write to the connection succeeds (ok) or fails, and
\* on failure WritePump returns.
WritePumpWrite(c, ok) ==
    /\ wpc[c] = "running"
    /\ send[c] # <<>>
    /\ send' = [send EXCEPT ![c] = Tail(@)]
    /\ wpc' = [wpc EXCEPT ![c] = IF ok THEN "running" ELSE "done"]
    /\ UNCHANGED <<clients, sendClosed, closed, broadcast, hpc, hmsg, snap, hcur,
                   cpc, rpc, nextMsg, recv, fan>>
    /\ UNCHANGED <<monVars, engVars>>

\* Client.WritePump (hub.go:118, 125-126): the channel is closed and drained,
\* the range loop ends and WritePump finishes.
WritePumpClosed(c) ==
    /\ wpc[c] = "running"
    /\ send[c] = <<>>
    /\ sendClosed[c]
    /\ wpc' = [wpc EXCEPT ![c] = "done"]
    /\ UNCHANGED <<clients, send, sendClosed, closed, broadcast, hpc, hmsg, snap,
                   hcur, cpc, rpc, nextMsg, recv, fan>>
    /\ UNCHANGED <<monVars, engVars>>

\* Hub.BroadcastMessage up to its channel send (hub.go:77-88), called by the
\* single goroutine that emits events; the payload of the n-th call is n.
BroadcastMessage(n) ==
    /\ broadcast = Nil
    /\ n = nextMsg
    /\ n <= MaxMsgs
    /\ broadcast' = Ref(Marshal("CARD_INSERTED", n))
    /\ nextMsg' = n + 1
    /\ UNCHANGED <<clients, send, sendClosed, closed, hpc, hmsg, snap, hcur,
                   cpc, rpc, wpc, recv, fan>>
    /\ UNCHANGED <<monVars, engVars>>

(***************************************************************************)
(* Event handlers (cmd/card-service/main.go:52-97).  A handler is modelled *)
(* by the messages it passes to hub.BroadcastMessage, in order.            *)
(***************************************************************************)

\* An insert handler whose switch has lost its cases: every error is
\* reported as a read failure.
OnCardInsertedUnclassified(cardData, err) ==
    IF err # Nil
      THEN <<Marshal("ERROR", [code |-> ErrCodeReadFailed, message |-> ErrMsgReadFailed])>>
      ELSE <<Marshal("CARD_INSERTED", cardData)>>

\* The handler given to reader.OnCardInserted (main.go:52-90).
OnCardInserted(cardData, err) ==
    IF err # Nil
      THEN LET text == ErrorOf(err)
               code == IF text = ErrMsgReaderNotFound THEN ErrCodeReaderNotFound
                       ELSE IF text = ErrMsgCardNotDetected THEN ErrCodeCardNotDetected
                       ELSE IF text = ErrMsgUnsupportedCard THEN ErrCodeUnsupportedCard
                       ELSE ErrCodeReadFailed
               message == IF text = ErrMsgReaderNotFound THEN ErrMsgReaderNotFound
                          ELSE IF text = ErrMsgCardNotDetected THEN ErrMsgCardNotDetected
                          ELSE IF text = ErrMsgUnsupportedCard THEN ErrMsgUnsupportedCard
                          ELSE ErrMsgReadFailed
           IN  <<Marshal("ERROR", [code |-> code, message |-> message])>>
      ELSE <<Marshal("CARD_INSERTED", cardData)>>

\* The handler given to reader.OnCardRemoved (main.go:92-97).
OnCardRemoved == <<Marshal("CARD_REMOVED", Nil)>>

(***************************************************************************)
(* Reader monitor (pcsc_reader.go:61-137).                                 *)
(***************************************************************************)
Slots == 1..NumSlots

\* What ListReaders may return when it finds readers: the visible slots, in
\* the order of their numbers.
ReaderLists ==
    {rs \in UNION {[1..n -> Slots] : n \in 1..NumSlots} :
        \A i, j \in DOMAIN rs : i < j => rs[i] < rs[j]}

\* A response without transport error, and the exchanges built from it.
Rsp(bytes) == [err |-> Nil, rsp |-> bytes]
Ok(data) == <<Rsp(data \o <<144, 0>>), Rsp(<<>>)>>
Status(sw1, sw2) == <<Rsp(<<sw1, sw2>>), Rsp(<<>>)>>
More(x) == <<Rsp(<<97, Len(x[1].rsp)>>), x[1]>>
Mute == <<[err |-> Err("transmit failed"), rsp |-> <<>>], Rsp(<<>>)>>
Short == <<Rsp(<<144>>), Rsp(<<>>)>>

\* A card holding the citizen id cid that answers the select command with
\* the exchange sel.
ThaiCard(cid, sel) ==
    [select |-> sel,
     fields |-> <<Ok(cid), Ok(<<161, 35, 162>>), Ok(<<65, 35, 66>>),
                  Ok(<<50, 53, 51, 51, 48, 49, 48, 49>>), Ok(<<49>>),
                  Ok(<<50, 53, 54, 51, 48, 49, 48, 49>>),
                  Ok(<<50, 53, 55, 51, 48, 49, 48, 49>>),
                  Ok(<<49, 35, 168, 209, 167, 203, 199, 209, 180, 161>>)>>,
     photo |-> [i \in 1..20 |->
                   IF i = 1 THEN Ok(<<255, 216, 255, 217, 32>>) ELSE Status(106, 130)]]

\* A Thai ID card that answers the select command with 61xx, and whose
\* date-of-birth read and first photo chunk fail.
WornCard ==
    [ThaiCard(<<54>>, More(Ok(<<>>))) EXCEPT
        !.fields[4] = Status(105, 130),
        !.photo[1] = Mute]

\* The cards the monitor may meet at one read attempt: a Thai ID card, a
\* Thai ID card with failing reads, a card whose applet is missing (6A82),
\* a card of another kind (6D00) and a card that does not answer.
MonCards ==
    {ThaiCard(<<49>>, Ok(<<>>)), WornCard,
     ThaiCard(<<51>>, Status(106, 130)), ThaiCard(<<52>>, Status(109, 0)),
     ThaiCard(<<53>>, Mute)}

\* A release of the session that powers the card down.
DisconnectUnpower == "Disconnect(UnpowerCard)"

\* The session calls: context.Connect in exclusive mode, succeeding or not
\* (pcsc_reader.go:86, 109), and card.Disconnect with either disposition
\* (pcsc_reader.go:107, 122).
Connect == "Connect(ShareExclusive)"
ConnectFailed == "Connect(ShareExclusive) failed"
DisconnectReset == "Disconnect(ResetCard)"
DisconnectLeave == "Disconnect(LeaveCard)"

\* No visit of a slot is in progress.
NoCur ==
    [slot |-> 0, conn |-> "none", was |-> FALSE, cards |-> <<>>, cmds |-> <<>>,
     handler |-> Nil]

Bump(n) == IF n < MaxRun THEN n + 1 ELSE n

\* A count of the watched slot takes the value new when the step is about
\* that slot, and keeps its value old otherwise.
Counted(slot, old, new) == IF slot = watch THEN new ELSE old

\* History kept at the start of every tick: a slot whose connect did not
\* succeed in the tick that just ended is no longer in a run of ticks.  The
\* first tick chooses the slot to watch.
TickStart(kind) ==
    /\ listed' = kind
    /\ cur' = NoCur
    /\ seen' = {}
    /\ okRun' = IF watch \in seen THEN okRun ELSE 0
    /\ insRun' = IF watch \in seen THEN insRun ELSE 0
    /\ watch' \in (IF watch = 0 THEN Slots ELSE {watch})
    /\ emptyRun' = IF kind = "empty" THEN Bump(emptyRun) ELSE 0
    /\ sess' = <<>>

\* A handler starts: it offers its first message on h.broadcast
\* (hub.go:88) and monitorLoop waits in it at position pc; a handler with no
\* message has nothing to wait for.
Invoke(msgs, slot, pc, evNow) ==
    /\ mpc' = pc
    /\ IF msgs = <<>>
         THEN /\ UNCHANGED broadcast
              /\ outbox' = <<>>
              /\ ev' = evNow
         ELSE /\ broadcast' = Ref(Head(msgs))
              /\ outbox' = Tail(msgs)
              /\ ev' = Append(evNow, [slot |-> slot, msg |-> Head(msgs)])

\* The select at the top of the loop (pcsc_reader.go:65-68) takes its default
\* case only when no sender is waiting on stopChan.
NoStopSignal == spc # "sending"

\* A monitor that reports a failed listing as it reports an empty one.
ListReadersErrorReported ==
    /\ mpc = "tick"
    /\ NoStopSignal
    /\ TickStart("err")
    /\ Invoke(OnCardInserted(Nil, Err(ErrMsgReaderNotFound)), 0, "noReaderHandler", <<>>)
    /\ UNCHANGED <<lastState, readers, card, retry, okAtt, insAtt, monitoring,
                   spc, stopAt, lastEvent, loops>>
    /\ UNCHANGED <<clients, send, sendClosed, closed, hpc, hmsg, snap, hcur,
                   cpc, rpc, wpc, nextMsg, recv, fan, engVars>>

\* ListReaders fails (pcsc_reader.go:69-74): sleep 2 s and continue.
ListReadersError ==
    /\ mpc = "tick"
    /\ NoStopSignal
    /\ TickStart("err")
    /\ ev' = <<>>
    /\ UNCHANGED <<mpc, lastState, readers, card, outbox, retry, okAtt, insAtt, monitoring,
                   spc, stopAt, lastEvent, loops>>
    /\ UNCHANGED <<hubVars, engVars>>

\* A monitor that forgets every card when no reader is listed.
ListReadersEmptyClearsFlags ==
    /\ mpc = "tick"
    /\ NoStopSignal
    /\ TickStart("empty")
    /\ Invoke(OnCardInserted(Nil, Err(ErrMsgReaderNotFound)), 0, "noReaderHandler", <<>>)
    /\ lastState' = [s \in Slots |-> FALSE]
    /\ UNCHANGED <<readers, card, retry, okAtt, insAtt, monitoring,
                   spc, stopAt, lastEvent, loops>>
    /\ UNCHANGED <<clients, send, sendClosed, closed, hpc, hmsg, snap, hcur,
                   cpc, rpc, wpc, nextMsg, recv, fan, engVars>>

\* ListReaders returns no reader (pcsc_reader.go:76-82): the insert handler
\* is called with the reader-not-found error.
ListReadersEmpty ==
    /\ mpc = "tick"
    /\ NoStopSignal
    /\ TickStart("empty")
    /\ Invoke(OnCardInserted(Nil, Err(ErrMsgReaderNotFound)), 0, "noReaderHandler", <<>>)
    /\ UNCHANGED <<lastState, readers, card, retry, okAtt, insAtt, monitoring,
                   spc, stopAt, lastEvent, loops>>
    /\ UNCHANGED <<clients, send, sendClosed, closed, hpc, hmsg, snap, hcur,
                   cpc, rpc, wpc, nextMsg, recv, fan, engVars>>

\* ListReaders returns the readers rs (pcsc_reader.go:69, 84).
ListReaders(rs) ==
    /\ mpc = "tick"
    /\ NoStopSignal
    /\ TickStart("some")
    /\ ev' = <<>>
    /\ readers' = rs
    /\ mpc' = "slots"
    /\ UNCHANGED <<lastState, card, outbox, retry, okAtt, insAtt, monitoring,
                   spc, stopAt, lastEvent, loops>>
    /\ UNCHANGED <<hubVars, engVars>>

\* monitorLoop moves on to the next reader of the listing, or sleeps 500 ms
\* and starts the next tick (pcsc_reader.go:84, 134).
NextReader ==
    /\ readers' = Tail(readers)
    /\ mpc' = IF Tail(readers) = <<>> THEN "tick" ELSE "slots"

\* A monitor that reads the card on every tick it can connect.
IsInsertionLevel(slot) == TRUE

\* The insertion edge (pcsc_reader.go:89): Connect succeeded and the flag of
\* the slot is false.
IsInsertion(slot) == ~lastState[slot]

\* A monitor that reports a removal on every tick it cannot connect.
IsRemovalLevel(slot) == TRUE

\* The removal edge (pcsc_reader.go:124): Connect failed and the flag of the
\* slot is true.
IsRemoval(slot) == lastState[slot]

\* Connect succeeds on a slot whose flag is false (pcsc_reader.go:86-97):
\* the flag is set and the retry loop starts.
ConnectInserted ==
    /\ mpc = "slots"
    /\ IsInsertion(Head(readers))
    /\ lastState' = [lastState EXCEPT ![Head(readers)] = TRUE]
    /\ card' = Ref(Head(readers))
    /\ retry' = 0
    /\ mpc' = "readCard"
    /\ cur' = [NoCur EXCEPT !.slot = Head(readers), !.conn = "ok",
                            !.was = lastState[Head(readers)]]
    /\ seen' = seen \cup {Head(readers)}
    /\ okRun' = Counted(Head(readers), okRun, Bump(okRun))
    /\ okAtt' = Counted(Head(readers), okAtt, Bump(okAtt))
    /\ ev' = <<>>
    /\ sess' = <<Connect>>
    /\ UNCHANGED <<readers, outbox, listed, insRun, insAtt, emptyRun, watch, monitoring,
                   spc, stopAt, lastEvent, loops>>
    /\ UNCHANGED <<hubVars, engVars>>

\* The condition of the reconnect branch (pcsc_reader.go:104-106).
NeedsReconnect(n, readErr) ==
    /\ n < 2
    /\ readErr # Nil
    /\ \/ ErrorOf(readErr) = "applet not found"
       \/ ErrorOf(readErr) = "select applet failed: SW=6A82"

\* A retry loop of one attempt, one of two, and one of four.
RetryNever(n) == FALSE
RetryOnce(n) == n + 1 < 2
RetryFour(n) == n + 1 < 4

\* Whether the retry loop runs again after attempt n, counted from 0
\* (pcsc_reader.go:97).
RetryAgain(n) == n + 1 < 3

\* One iteration of the retry loop (pcsc_reader.go:97-117) and, when the
\* loop ends, the call of the insert handler (pcsc_reader.go:119).  The card
\* answers this attempt as c does; reconnected tells whether the Connect of
\* the reconnect branch succeeds.
ReadAttempt(c, reconnected) ==
    /\ mpc = "readCard"
    /\ \E r \in {readCard(c)} :
       LET slot == Head(readers)
           reset == r.err # Nil /\ NeedsReconnect(retry, r.err)
           broken == reset /\ ~reconnected
           done == r.err = Nil \/ broken \/ ~RetryAgain(retry)
           seenNow == [cur EXCEPT !.cards = Append(@, c), !.cmds = @ \o r.cmds]
       IN  /\ card' = IF broken THEN Nil ELSE card
           /\ sess' = IF reset
                        THEN sess \o <<DisconnectReset,
                                       IF reconnected THEN Connect ELSE ConnectFailed>>
                        ELSE sess
           /\ IF done
                THEN /\ Invoke(OnCardInserted(r.card, r.err), slot, "insertHandler", ev)
                     /\ cur' = [seenNow EXCEPT
                                   !.handler = Ref([card |-> r.card, err |-> r.err])]
                     /\ insRun' = Counted(slot, insRun, Bump(insRun))
                     /\ insAtt' = Counted(slot, insAtt, Bump(insAtt))
                     /\ lastEvent' = Counted(slot, lastEvent, "insertion")
                     /\ UNCHANGED retry
                ELSE /\ retry' = retry + 1
                     /\ cur' = seenNow
                     /\ UNCHANGED <<mpc, broadcast, outbox, ev, insRun, insAtt, lastEvent>>
    /\ UNCHANGED <<lastState, readers, listed, seen, okRun, okAtt, emptyRun, watch, monitoring,
                   spc, stopAt, loops>>
    /\ UNCHANGED <<clients, send, sendClosed, closed, hpc, hmsg, snap, hcur,
                   cpc, rpc, wpc, nextMsg, recv, fan, engVars>>

\* Connect succeeds on a slot whose flag is true (pcsc_reader.go:88-89,
\* 122): nothing but the release of the session.
ConnectStill ==
    /\ mpc = "slots"
    /\ ~IsInsertion(Head(readers))
    /\ NextReader
    /\ cur' = [NoCur EXCEPT !.slot = Head(readers), !.conn = "ok",
                            !.was = lastState[Head(readers)]]
    /\ seen' = seen \cup {Head(readers)}
    /\ okRun' = Counted(Head(readers), okRun, Bump(okRun))
    /\ okAtt' = Counted(Head(readers), okAtt, Bump(okAtt))
    /\ ev' = <<>>
    /\ sess' = <<Connect, DisconnectLeave>>
    /\ UNCHANGED <<lastState, card, outbox, retry, listed, insRun, insAtt, emptyRun, watch, monitoring,
                   spc, stopAt, lastEvent, loops>>
    /\ UNCHANGED <<hubVars, engVars>>

\* A monitor that reports a removal and leaves the flag of the slot set.
ConnectRemovedKeepsFlag ==
    /\ mpc = "slots"
    /\ IsRemoval(Head(readers))
    /\ Invoke(OnCardRemoved, Head(readers), "removeHandler", <<>>)
    /\ cur' = [NoCur EXCEPT !.slot = Head(readers), !.conn = "fail",
                            !.was = lastState[Head(readers)]]
    /\ okRun' = Counted(Head(readers), okRun, 0)
    /\ insRun' = Counted(Head(readers), insRun, 0)
    /\ okAtt' = Counted(Head(readers), okAtt, 0)
    /\ insAtt' = Counted(Head(readers), insAtt, 0)
    /\ sess' = <<ConnectFailed>>
    /\ lastEvent' = Counted(Head(readers), lastEvent, "removal")
    /\ UNCHANGED <<lastState, readers, card, retry, listed, seen, emptyRun, watch,
                   monitoring, spc, stopAt, loops>>
    /\ UNCHANGED <<clients, send, sendClosed, closed, hpc, hmsg, snap, hcur,
                   cpc, rpc, wpc, nextMsg, recv, fan, engVars>>

\* Connect fails on a slot whose flag is true (pcsc_reader.go:123-130): the
\* flag is cleared and the remove handler is called.
ConnectRemoved ==
    /\ mpc = "slots"
    /\ IsRemoval(Head(readers))
    /\ lastState' = [lastState EXCEPT ![Head(readers)] = FALSE]
    /\ Invoke(OnCardRemoved, Head(readers), "removeHandler", <<>>)
    /\ cur' = [NoCur EXCEPT !.slot = Head(readers), !.conn = "fail",
                            !.was = lastState[Head(readers)]]
    /\ okRun' = Counted(Head(readers), okRun, 0)
    /\ insRun' = Counted(Head(readers), insRun, 0)
    /\ okAtt' = Counted(Head(readers), okAtt, 0)
    /\ insAtt' = Counted(Head(readers), insAtt, 0)
    /\ sess' = <<ConnectFailed>>
    /\ lastEvent' = Counted(Head(readers), lastEvent, "removal")
    /\ UNCHANGED <<readers, card, retry, listed, seen, emptyRun, watch, monitoring,
                   spc, stopAt, loops>>
    /\ UNCHANGED <<clients, send, sendClosed, closed, hpc, hmsg, snap, hcur,
                   cpc, rpc, wpc, nextMsg, recv, fan, engVars>>

\* Connect fails on a slot whose flag is false (pcsc_reader.go:123-124):
\* nothing happens.
ConnectAbsent ==
    /\ mpc = "slots"
    /\ ~IsRemoval(Head(readers))
    /\ NextReader
    /\ cur' = [NoCur EXCEPT !.slot = Head(readers), !.conn = "fail",
                            !.was = lastState[Head(readers)]]
    /\ okRun' = Counted(Head(readers), okRun, 0)
    /\ insRun' = Counted(Head(readers), insRun, 0)
    /\ okAtt' = Counted(Head(readers), okAtt, 0)
    /\ insAtt' = Counted(Head(readers), insAtt, 0)
    /\ ev' = <<>>
    /\ sess' = <<ConnectFailed>>
    /\ UNCHANGED <<lastState, card, outbox, retry, listed, seen, emptyRun, watch, monitoring,
                   spc, stopAt, lastEvent, loops>>
    /\ UNCHANGED <<hubVars, engVars>>

\* The hub has taken the handler's message: BroadcastMessage returns, the
\* handler broadcasts its next message or returns, the visit is over and
\* monitorLoop goes on:
\* after an insertion it releases the session with LeaveCard
\* (pcsc_reader.go:122), which fails on a nil session; after the
\* reader-not-found report it sleeps 2 s (pcsc_reader.go:80-81).
HandlerReturn ==
    /\ mpc \in {"insertHandler", "removeHandler", "noReaderHandler"}
    /\ broadcast = Nil
    /\ IF outbox # <<>>
         THEN /\ broadcast' = Ref(Head(outbox))
              /\ outbox' = Tail(outbox)
              /\ ev' = Append(ev, [slot |-> cur.slot, msg |-> Head(outbox)])
              /\ UNCHANGED <<mpc, readers, card, cur, sess>>
         ELSE /\ UNCHANGED <<broadcast, outbox>>
              /\ IF mpc = "noReaderHandler"
                   THEN /\ mpc' = "tick"
                        /\ UNCHANGED <<readers, card, sess>>
                   ELSE IF mpc = "insertHandler" /\ card = Nil
                   THEN /\ mpc' = "panic"
                        /\ UNCHANGED <<readers, card, sess>>
                   ELSE /\ NextReader
                        /\ card' = Nil
                        /\ sess' = IF mpc = "insertHandler"
                                     THEN Append(sess, DisconnectLeave) ELSE sess
              /\ cur' = NoCur
              /\ ev' = <<>>
    /\ UNCHANGED <<lastState, retry, listed, seen, okRun, insRun, okAtt,
                   insAtt, emptyRun, watch, monitoring,
                   spc, stopAt, lastEvent, loops>>
    /\ UNCHANGED <<clients, send, sendClosed, closed, hpc, hmsg, snap, hcur,
                   cpc, rpc, wpc, nextMsg, recv, fan, engVars>>

\* PCSCReader.StopMonitoring up to its channel send (pcsc_reader.go:46-48),
\* called once, by main at shutdown (main.go:116): the caller blocks on the
\* unbuffered stopChan, or returns at once when nothing is monitoring.
StopMonitoring ==
    /\ spc = "idle"
    /\ spc' = IF monitoring THEN "sending" ELSE "returned"
    /\ stopAt' = IF mpc \in {"readCard", "insertHandler"} THEN "read" ELSE "other"
    /\ UNCHANGED <<mpc, lastState, readers, card, outbox, retry, listed, cur, ev,
                   seen, watch, okRun, insRun, okAtt, insAtt, emptyRun, monitoring, sess, lastEvent, loops>>
    /\ UNCHANGED <<hubVars, engVars>>

\* A monitor that takes the stop signal wherever it is.
AtSelectAnywhere == TRUE

\* monitorLoop is at the select at the top of its loop (pcsc_reader.go:65).
AtSelect == mpc = "tick"

\* monitorLoop receives from stopChan and returns (pcsc_reader.go:66-67); the
\* send of StopMonitoring completes, it clears r.monitoring and returns
\* (pcsc_reader.go:48-50).
MonitorStop ==
    /\ spc = "sending"
    /\ AtSelect
    /\ mpc' = "stopped"
    /\ spc' = "returned"
    /\ monitoring' = FALSE
    /\ loops' = loops - 1
    /\ UNCHANGED <<lastState, readers, card, outbox, retry, listed, cur, ev, seen,
                   watch, okRun, insRun, okAtt, insAtt, emptyRun, stopAt, sess, lastEvent>>
    /\ UNCHANGED <<hubVars, engVars>>

\* What a fresh monitorLoop goroutine starts with (pcsc_reader.go:61-63): the
\* top of the loop and an empty lastState map; the histories describe one run
\* of the loop and start again with it.
FreshLoop ==
    /\ mpc' = "tick"
    /\ lastState' = [s \in Slots |-> FALSE]
    /\ readers' = <<>>
    /\ card' = Nil
    /\ outbox' = <<>>
    /\ retry' = 0
    /\ listed' = "none"
    /\ cur' = NoCur
    /\ ev' = <<>>
    /\ seen' = {}
    /\ watch' = 0
    /\ okRun' = 0
    /\ insRun' = 0
    /\ okAtt' = 0
    /\ insAtt' = 0
    /\ emptyRun' = 0
    /\ sess' = <<>>
    /\ lastEvent' = "none"

\* A StartMonitoring that does not look at r.monitoring.
StartMonitoringUnchecked ==
    /\ spc = "idle"
    /\ monitoring' = TRUE
    /\ loops' = loops + 1
    /\ FreshLoop
    /\ call' = Ref([fn |-> "StartMonitoring", arg |-> Nil, ret |-> Nil])
    /\ UNCHANGED <<spc, stopAt, hubVars, inCard, result>>

\* PCSCReader.StartMonitoring (pcsc_reader.go:35-44), called when no other
\* call is in progress: the "already monitoring" error while r.monitoring is
\* set, otherwise the flag is set and a monitorLoop goroutine is started.
StartMonitoring ==
    /\ spc = "idle"
    /\ IF monitoring
         THEN /\ call' = Ref([fn |-> "StartMonitoring", arg |-> Nil,
                              ret |-> Err("already monitoring")])
              /\ UNCHANGED monVars
         ELSE /\ monitoring' = TRUE
              /\ loops' = loops + 1
              /\ FreshLoop
              /\ call' = Ref([fn |-> "StartMonitoring", arg |-> Nil, ret |-> Nil])
              /\ UNCHANGED <<spc, stopAt>>
    /\ UNCHANGED <<hubVars, inCard, result>>

\* StopMonitoring has returned and its caller goes on to its next call.
CallReturns ==
    /\ spc = "returned"
    /\ spc' = "idle"
    /\ UNCHANGED <<mpc, lastState, readers, card, outbox, retry, listed, cur, ev, seen,
                   watch, okRun, insRun, okAtt, insAtt, emptyRun, sess, monitoring,
                   stopAt, lastEvent, loops>>
    /\ UNCHANGED <<hubVars, engVars>>

NextMonitor ==
    \/ ListReadersError
    \/ ListReadersEmpty
    \/ \E rs \in ReaderLists : ListReaders(rs)
    \/ ConnectInserted
    \/ \E c \in MonCards, reconnected \in BOOLEAN : ReadAttempt(c, reconnected)
    \/ ConnectStill
    \/ ConnectRemoved
    \/ ConnectAbsent
    \/ HandlerReturn

(***************************************************************************)
(* One readCard call on its own, on any of the cards of TestCards.         *)
(***************************************************************************)
\* How a failing read fails: a status other than 9000, a transport error, a
\* short response, or a failing GET RESPONSE after 61xx.
FailKinds == {Status(106, 130), Mute, Short, More(Status(105, 130))}

\* The cards of SpecCard: every set bad of failing field reads, each way of
\* failing, three ways to answer the select command, and the photo failing
\* at its first chunk, at its third, or after all twenty.
TestCards ==
    {[select |-> sel,
      fields |-> [i \in 1..8 |->
                     IF i \in bad THEN how ELSE ThaiCard(<<49>>, sel).fields[i]],
      photo |-> [i \in 1..20 |->
                     IF i >= stop THEN how
                     ELSE IF i = 2 THEN Ok(<<255, 217, 32>>) ELSE Ok(<<255, 216>>)]] :
        bad \in SUBSET (1..8), how \in FailKinds,
        sel \in {Ok(<<>>), More(Status(151, 16)), Status(106, 130)},
        stop \in {1, 3, 21}}

\* A session is established with the card c (pcsc_reader.go:86).
ConnectCard(c) ==
    /\ inCard = Nil
    /\ inCard' = Ref(c)
    /\ UNCHANGED <<result, call, hubVars, monVars>>

\* readCard on the session with inCard (pcsc_reader.go:98), then the insert
\* handler on what it returned (pcsc_reader.go:119).
ReadCardOnce ==
    /\ inCard # Nil
    /\ result = Nil
    /\ \E r \in {readCard(inCard[1])} :
           result' = Ref([read |-> r, msgs |-> OnCardInserted(r.card, r.err)])
    /\ UNCHANGED <<inCard, call, hubVars, monVars>>

(***************************************************************************)
(* One call of selectApplet on its own, on any exchange of SelectExchanges.*)
(***************************************************************************)
\* Status bytes: those selectApplet tests for (61, 6A, 82, 90, 97, 00, 10)
\* and others around them.
SwBytes == {0, 16, 97, 98, 106, 109, 130, 144, 151, 255}

\* What a transmit may yield: a transport error, a response too short to
\* hold a status word, or a status word with or without data before it.
Responses ==
    {Mute[1], Rsp(<<>>), Rsp(<<144>>)}
        \cup {Rsp(data \o <<sw1, sw2>>) :
                 data \in {<<>>, <<144, 0>>}, sw1 \in SwBytes, sw2 \in SwBytes}

\* The exchanges a card may make of the select command: its response, and
\* its response to a GET RESPONSE.  The second matters only after 61xx.
SelectExchanges ==
    {<<r1, r2>> : r1 \in Responses,
                  r2 \in {Mute[1], Rsp(<<144>>), Rsp(<<144, 0>>), Rsp(<<1, 151, 16>>),
                          Rsp(<<106, 130>>), Rsp(<<97, 16>>), Rsp(<<109, 0>>)}}

\* selectApplet on a session whose card answers as x does
\* (pcsc_reader.go:142).
SelectAppletOnce(x) ==
    /\ call = Nil
    /\ call' = Ref([fn |-> "selectApplet", arg |-> x, ret |-> selectApplet(x)])
    /\ UNCHANGED <<inCard, result, hubVars, monVars>>

(***************************************************************************)
(* One call of readPhoto on its own, on the chunks of any photo.           *)
(***************************************************************************)
\* The bytes of the photo chunks: the two of the end-of-image marker, the
\* padding byte and one other.
PhotoBytes == {255, 217, 32, 1}

\* The data of one chunk.
ChunkData == UNION {[1..n -> PhotoBytes] : n \in 0..MaxChunkLen}

\* The card's answers to the 20 chunk reads: the first LiveChunks chunks are
\* read with status 9000 and carry the data ds, the next one fails.
PhotoChunks(ds) ==
    [i \in 1..20 |-> IF i <= LiveChunks THEN Ok(ds[i]) ELSE Status(106, 130)]

\* readPhoto on a session whose card answers the chunk reads as photo does
\* (pcsc_reader.go:218).
ReadPhotoOnce(photo) ==
    /\ call = Nil
    /\ call' = Ref([fn |-> "readPhoto", arg |-> photo, ret |-> readPhoto(photo)])
    /\ UNCHANGED <<inCard, result, hubVars, monVars>>

(***************************************************************************)
(* One call of ParseThaiAddress on its own, on any address of              *)
(* TestAddresses.                                                          *)
(***************************************************************************)
\* The first and the last segment of a raw address of two segments or more.
FirstSegments == {<<>>, <<32, 57, 32>>}
LastSegments == {<<>>, <<32, 81, 32>>, Changwat \o <<32, 80>>}

\* The segments in between, and the only segment of an address of one:
\* empty, unmarked (one with spaces around it, one holding a subdistrict
\* marker inside), one for each marker, and one that starts with both
\* subdistrict markers.
TestSegments ==
    {<<>>, <<82>>, <<32, 81, 32>>, <<82, 32>> \o Khwaeng,
     MooThi \o <<32, 49>>, Soi \o <<83>>, Tambon \o <<84>>, Khwaeng \o <<75>>,
     Amphoe \o <<77>>, Khet \o <<69>>, Changwat \o <<80>>,
     Tambon \o Khwaeng \o <<88>>}

\* The segments joined by '#'.
RECURSIVE RawAddress(_)
RawAddress(segs) ==
    IF Len(segs) = 1 THEN segs[1] ELSE segs[1] \o <<35>> \o RawAddress(Tail(segs))

\* The example of the README (build.ps1:112-121).
ExampleAddress ==
    RawAddress(<< <<50, 56, 47, 55, 48>>,
                  Soi \o <<3626, 3640, 3586, 3586, 3640, 3617, 3623, 3636, 3607, 32,
                           55, 48, 32, 3649, 3618, 3585, 32, 53, 45, 49>>,
                  Khwaeng \o <<3592, 3629, 3617, 3607, 3629, 3591>>,
                  Khet \o <<3592, 3629, 3617, 3607, 3629, 3591>>,
                  Changwat \o <<3585, 3619, 3640, 3591, 3648, 3607, 3614, 3617, 3627,
                                3634, 3609, 3588, 3619>> >>)

TestAddresses ==
    {ExampleAddress}
        \cup {RawAddress(<<s>>) : s \in TestSegments}
        \cup {RawAddress(<<f>> \o mid \o <<l>>) :
                 f \in FirstSegments, l \in LastSegments,
                 mid \in UNION {[1..n -> TestSegments] : n \in 0..(MaxSegments - 2)}}

\* domain.ParseThaiAddress on the decoded address field (pcsc_reader.go:214).
ParseThaiAddressOnce(addressStr) ==
    /\ call = Nil
    /\ call' = Ref([fn |-> "ParseThaiAddress", arg |-> addressStr,
                    ret |-> ParseThaiAddress(addressStr)])
    /\ UNCHANGED <<inCard, result, hubVars, monVars>>

(***************************************************************************)
(* One call of formatDate on its own, on the data of a date field: a year  *)
(* of four digits and a month and day, cut to its first k bytes, with null *)
(* bytes around it.                                                        *)
(***************************************************************************)
\* The years: 0542, 0543 and 2542 are among them.
Years == {<<a, b, c, d>> : a \in {48, 50}, b \in {48, 53}, c \in {48, 52}, d \in {50, 51}}
\* Month and day.
MonthDays == {<<48, 49, 48, 49>>, <<49, 50, 51, 49>>, <<48, 48, 48, 48>>}

Nulls(n) == [i \in 1..n |-> 0]

\* r.formatDate(string(data)) on the data of a date read
\* (pcsc_reader.go:184, 201, 207).
FormatDateOnce(dateStr) ==
    /\ call = Nil
    /\ call' = Ref([fn |-> "formatDate", arg |-> dateStr, ret |-> formatDate(dateStr)])
    /\ UNCHANGED <<inCard, result, hubVars, monVars>>

\* The state once main has wired the service: NewHub (hub.go:28-35) with
\* Hub.Run at its select and no connection accepted yet; NewPCSCReader, the
\* handlers set and StartMonitoring called (main.go:46-100), monitorLoop at
\* the top of its loop with an empty lastState map (a missing key reads as
\* false).
Init ==
    /\ clients = {}
    /\ send = [c \in Clients |-> <<>>]
    /\ sendClosed = [c \in Clients |-> FALSE]
    /\ closed = [c \in Clients |-> FALSE]
    /\ broadcast = Nil
    /\ hpc = "select"
    /\ hmsg = Nil
    /\ snap = {}
    /\ hcur = 0
    /\ cpc = [c \in Clients |-> "new"]
    /\ rpc = [c \in Clients |-> "off"]
    /\ wpc = [c \in Clients |-> "off"]
    /\ nextMsg = 1
    /\ recv = [c \in Clients |-> <<>>]
    /\ fan = [c \in Clients |-> "none"]
    /\ mpc = "tick"
    /\ lastState = [s \in Slots |-> FALSE]
    /\ readers = <<>>
    /\ card = Nil
    /\ outbox = <<>>
    /\ retry = 0
    /\ listed = "none"
    /\ cur = NoCur
    /\ ev = <<>>
    /\ seen = {}
    /\ watch = 0
    /\ okRun = 0
    /\ insRun = 0
    /\ okAtt = 0
    /\ insAtt = 0
    /\ emptyRun = 0
    /\ monitoring = TRUE
    /\ spc = "idle"
    /\ stopAt = "none"
    /\ sess = <<>>
    /\ lastEvent = "none"
    /\ loops = 1
    /\ inCard = Nil
    /\ result = Nil
    /\ call = Nil

NextHub ==
    \/ \E c \in Clients : RegisterClient(c)
    \/ \E c \in Clients : HubRegister(c)
    \/ \E c \in Clients : HubUnregister(c)
    \/ HubRecvBroadcast
    \/ \E c \in Clients : HubFanoutSend(c)
    \/ \E c \in Clients : HubFanoutFull(c)
    \/ \E c \in Clients : ReadPumpDisconnect(c)
    \/ \E c \in Clients, ok \in BOOLEAN : WritePumpWrite(c, ok)
    \/ \E c \in Clients : WritePumpClosed(c)
    \/ \E n \in 1..MaxMsgs : BroadcastMessage(n)

\* The hub and its clients, with an abstract caller of BroadcastMessage.
SpecHub == Init /\ [][NextHub]_vars

\* The steps of the Hub.Run goroutine, of the monitorLoop goroutine when no
\* reader is attached, and of the WritePump goroutine of client c.
HubRuns ==
    \/ HubRecvBroadcast
    \/ \E c \in Clients : HubRegister(c) \/ HubUnregister(c)
    \/ \E c \in Clients : HubFanoutSend(c) \/ HubFanoutFull(c)
MonitorRuns == ListReadersError \/ ListReadersEmpty \/ HandlerReturn \/ MonitorStop
WritePumpRuns(c) == (\E ok \in BOOLEAN : WritePumpWrite(c, ok)) \/ WritePumpClosed(c)

\* The Go scheduler runs every goroutine that can take a step: a step of a
\* goroutine that stays possible is eventually taken.  Clients connect and
\* disconnect, callers broadcast, and the shutdown signal comes, when they
\* will.
HubScheduling ==
    /\ WF_vars(HubRuns)
    /\ \A c \in Clients : WF_vars(WritePumpRuns(c))
Scheduling == HubScheduling /\ WF_vars(MonitorRuns)

\* The hub, its clients and an abstract caller of BroadcastMessage, under
\* the scheduler.
SpecHubFair == Init /\ [][NextHub]_vars /\ HubScheduling

\* The whole service with no reader attached (every tick reports
\* reader-not-found or fails to list), one client and the shutdown call,
\* under the scheduler.
OneClient == {Min(Clients)}
NextService ==
    \/ ListReadersError
    \/ ListReadersEmpty
    \/ HandlerReturn
    \/ StopMonitoring
    \/ MonitorStop
    \/ HubRecvBroadcast
    \/ \E c \in OneClient : RegisterClient(c)
    \/ \E c \in OneClient : HubRegister(c)
    \/ \E c \in OneClient : HubUnregister(c)
    \/ \E c \in OneClient : HubFanoutSend(c)
    \/ \E c \in OneClient : HubFanoutFull(c)
    \/ \E c \in OneClient : ReadPumpDisconnect(c)
    \/ \E c \in OneClient, ok \in BOOLEAN : WritePumpWrite(c, ok)
    \/ \E c \in OneClient : WritePumpClosed(c)
SpecService == Init /\ [][NextService]_vars /\ Scheduling

\* The monitor and its handlers; no client connects, the hub takes every
\* broadcast.
NextMon == NextMonitor \/ HubRecvBroadcast
SpecMon == Init /\ [][NextMon]_vars

\* The monitor, the hub taking its messages, and one call of StopMonitoring.
NextStop == NextMon \/ StopMonitoring \/ MonitorStop

SpecStop == Init /\ [][NextStop]_vars

\* The monitor, meeting one Thai ID card, and a caller that makes
\* StartMonitoring and StopMonitoring calls one after another, in any order.
NextLife ==
    \/ ListReadersError
    \/ ListReadersEmpty
    \/ \E rs \in ReaderLists : ListReaders(rs)
    \/ ConnectInserted
    \/ ReadAttempt(ThaiCard(<<49>>, Ok(<<>>)), TRUE)
    \/ ConnectStill
    \/ ConnectRemoved
    \/ ConnectAbsent
    \/ HandlerReturn
    \/ HubRecvBroadcast
    \/ StartMonitoring
    \/ StopMonitoring
    \/ MonitorStop
    \/ CallReturns
SpecLife == Init /\ [][NextLife]_vars

\* One selectApplet call on each exchange of SelectExchanges.
NextSelect == \E x \in SelectExchanges : SelectAppletOnce(x)
SpecSelect == Init /\ [][NextSelect]_vars

\* One readPhoto call on each photo of LiveChunks chunks.
NextPhoto == \E ds \in [1..LiveChunks -> ChunkData] : ReadPhotoOnce(PhotoChunks(ds))
SpecPhoto == Init /\ [][NextPhoto]_vars

\* One ParseThaiAddress call on each address of TestAddresses.
NextAddr == \E addressStr \in TestAddresses : ParseThaiAddressOnce(addressStr)
SpecAddr == Init /\ [][NextAddr]_vars

\* One formatDate call on each date field.
NextDate ==
    \E year \in Years, md \in MonthDays, k \in 0..8,
       before \in 0..MaxPad, after \in 0..MaxPad :
        FormatDateOnce(Nulls(before) \o SubSeq(year \o md, 1, k) \o Nulls(after))
SpecDate == Init /\ [][NextDate]_vars

\* One readCard call on each card of TestCards.
NextCard == (\E c \in TestCards : ConnectCard(c)) \/ ReadCardOnce
SpecCard == Init /\ [][NextCard]_vars

(***************************************************************************)
(* Properties.  The card side of an exchange is classified here from the   *)
(* bytes the card sends, independently of selectApplet and readBinary.     *)
(***************************************************************************)

\* The status the card gives a command in the end: the status of the GET
\* RESPONSE after 61xx, of the command itself otherwise; <<>> when a
\* transmit failed or the response is short.
FinalStatus(x) ==
    LET sw(r) == IF r.err # Nil \/ Len(r.rsp) < 2 THEN <<>>
                 ELSE <<r.rsp[Len(r.rsp) - 1], r.rsp[Len(r.rsp)]>>
    IN  IF sw(x[1]) # <<>> /\ sw(x[1])[1] = 97 THEN sw(x[2]) ELSE sw(x[1])

\* How the card answers the select command: "ok", "missing" (applet
\* missing, 6A82) or "other".
SelectClass(c) ==
    LET st == FinalStatus(c.select)
    IN  IF st = <<144, 0>> \/ st = <<151, 16>> THEN "ok"
        ELSE IF st = <<106, 130>> THEN "missing" ELSE "other"

SelectClasses(cards) == [i \in DOMAIN cards |-> SelectClass(cards[i])]

\* The number of members of the sequence cmds equal to cmd.
RECURSIVE Count(_, _)
Count(cmds, cmd) ==
    IF cmds = <<>> THEN 0
    ELSE (IF Head(cmds) = cmd THEN 1 ELSE 0) + Count(Tail(cmds), cmd)

\* The messages emitted for slot among the events evs, in order.
RECURSIVE SlotMsgs(_, _)
SlotMsgs(evs, slot) ==
    IF evs = <<>> THEN <<>>
    ELSE (IF Head(evs).slot = slot THEN <<Head(evs).msg>> ELSE <<>>)
             \o SlotMsgs(Tail(evs), slot)

\* The messages of type messageType among msgs.
RECURSIVE OfType(_, _)
OfType(msgs, messageType) ==
    IF msgs = <<>> THEN <<>>
    ELSE (IF Head(msgs).type = messageType THEN <<Head(msgs)>> ELSE <<>>)
             \o OfType(Tail(msgs), messageType)

\* monitorLoop has dealt with an insertion on the slot of cur: the retry
\* loop is over and the insert handler has been called.
Reported == cur.slot # 0 /\ cur.handler # Nil

(***************************************************************************)
(* Hub (SpecHub).                                                          *)
(***************************************************************************)

\* C1 (as stated): when Hub.Run meets, in a fan-out, a subscriber that is
\* not yet closed and whose queue is full, it removes the subscriber from
\* the live set and closes its queue, and goes on with the fan-out or back
\* to its select: it waits on nothing.
C1_FullSubscriberDroppedWithoutBlocking ==
    \A c \in Clients :
        fan[c] = "full" =>
            /\ hpc \in {"select", "fanout"}
            /\ c \notin clients
            /\ sendClosed[c]

\* C2 (as stated): once Hub.Run has dealt with a subscriber in the fan-out
\* of a message, the subscriber has exactly one copy of the message on its
\* queue if the queue had room, and is out of the live set with its queue
\* closed and no copy if the queue was full; whatever the order of visit.
C2_FanOutOutcome ==
    \A c \in Clients :
        /\ fan[c] = "sent" => Count(recv[c], hmsg) = 1
        /\ fan[c] \in {"full", "fullClosing"} =>
               /\ c \notin clients
               /\ sendClosed[c]
               /\ Count(recv[c], hmsg) = 0

\* C10 (as stated): the messages placed on a subscriber's queue are a
\* contiguous run of the emitted events, in emission order and without
\* duplicates (the n-th event emitted carries payload n).
C10_ContiguousRunInOrder ==
    \A c \in Clients :
        \A i \in 1..(Len(recv[c]) - 1) :
            recv[c][i + 1].payload = recv[c][i].payload + 1

\* C11 (as stated): unregistration is idempotent and effective.  A queue is
\* closed only for a subscriber that is Closed and out of the live set; and
\* once the unregister request of a subscriber's reader task has returned,
\* whether it was the first request or a later one, the subscriber is Closed,
\* out of the live set, and its queue is closed.
C11_UnregisterRemovesAndCloses ==
    \A c \in Clients :
        /\ sendClosed[c] => closed[c] /\ c \notin clients
        /\ rpc[c] = "done" => closed[c] /\ c \notin clients /\ sendClosed[c]

\* C13 (as stated): no queue ever holds more than its capacity; a subscriber
\* being registered has an empty queue and is not Closed; when RegisterClient
\* has returned the subscriber is in the live set or has been Closed since;
\* and a subscriber that was in the live set when the hub took a broadcast
\* receives it: while it waits for its turn the fan-out is running, and once
\* the hub has dealt with it, if it is still Active, the message is the last
\* one placed on its queue.
C13_RegisteredSubscriberReceives ==
    \A c \in Clients :
        /\ Len(send[c]) <= QueueCap
        /\ cpc[c] = "registering" =>
               send[c] = <<>> /\ ~closed[c] /\ c \notin clients
        /\ cpc[c] = "open" => c \in clients \/ closed[c]
        /\ c \in snap => hpc = "fanout"
        /\ fan[c] # "none" /\ ~closed[c] =>
               /\ fan[c] = "sent"
               /\ recv[c] # <<>>
               /\ recv[c][Len(recv[c])] = hmsg

(***************************************************************************)
(* Reader monitor (SpecMon).                                               *)
(***************************************************************************)

\* C3 (as stated): for every slot, a run of consecutive ticks on which the
\* connect succeeds has exactly one insert-handler invocation, once the read
\* of its first tick is over.
C3_OneInsertionPerRunOfTicks ==
    okRun >= 1 /\ ~(mpc = "readCard" /\ cur.slot = watch) => insRun = 1

\* C3 (amended): for every slot, a run of consecutive successful connects,
\* ended only by a failed connect, has exactly one insert-handler invocation,
\* made at the first connect of the run after at most 3 reads and carrying
\* either a record or an error, never both and never neither; a later
\* connect of the run reads nothing and emits nothing.
C3_OneInsertionPerRunOfConnects ==
    /\ okAtt >= 1 /\ ~(mpc = "readCard" /\ cur.slot = watch) => insAtt = 1
    /\ Len(cur.cards) <= 3
    /\ Reported => (cur.handler[1].card = Nil) # (cur.handler[1].err = Nil)
    /\ cur.conn = "ok" /\ cur.was =>
           /\ cur.cards = <<>>
           /\ cur.handler = Nil
           /\ SlotMsgs(ev, cur.slot) = <<>>

\* Three consecutive ticks connect to a slot, the third finds the flag set,
\* and the slot has had one insertion.
C3_Witness ==
    okRun = 3 /\ insRun = 1 /\ cur.slot = watch /\ cur.conn = "ok" /\ cur.was

\* C4 (as stated): when the selection has failed on all 3 attempts of an
\* insertion, the events of the insertion are exactly one ERROR with code
\* 1004 and the unsupported-card message.
C4_UnsupportedCardReported ==
    Reported /\ Len(cur.cards) = 3
             /\ (\A i \in 1..3 : SelectClass(cur.cards[i]) # "ok")
        => SlotMsgs(ev, cur.slot) =
               <<Marshal("ERROR", [code |-> ErrCodeUnsupportedCard,
                                   message |-> ErrMsgUnsupportedCard])>>

\* C5 (as stated): a selection failure other than applet-missing ends the
\* retry loop: no attempt follows it, and an insertion whose first attempt
\* fails so has issued the select command exactly once when it is reported.
C5_OtherFailureNotRetried ==
    /\ \A i \in DOMAIN cur.cards :
           SelectClass(cur.cards[i]) = "other" => i = Len(cur.cards)
    /\ Reported /\ SelectClass(cur.cards[1]) = "other" =>
           Count(cur.cmds, SelectCmd) = 1

\* C5 (amended): a selection failure that is not applet-missing is retried
\* like any other: the select command is issued exactly once per attempt, at
\* most 3 attempts are made, and an insertion is reported only when every
\* such failure on attempt 1 or 2 has been followed by another attempt.
C5_OtherFailureRetried ==
    /\ Len(cur.cards) <= 3
    /\ Count(cur.cmds, SelectCmd) = Len(cur.cards)
    /\ Reported =>
           \A i \in DOMAIN cur.cards :
               SelectClass(cur.cards[i]) = "other" /\ i < 3 => i < Len(cur.cards)

\* An insertion is reported after three selection failures that were not
\* applet-missing.
C5_Witness ==
    Reported /\ SelectClasses(cur.cards) = <<"other", "other", "other">>

\* C6: after applet-missing failures on attempts 1 and 2 a third attempt is
\* made, and if its selection succeeds the events of the insertion are
\* exactly one CARD_INSERTED carrying the record of attempt 3 (so no ERROR).
C6_ThirdAttemptRecordEmitted ==
    Reported /\ Len(cur.cards) >= 2
             /\ SelectClass(cur.cards[1]) = "missing"
             /\ SelectClass(cur.cards[2]) = "missing"
        => /\ Len(cur.cards) = 3
           /\ SelectClass(cur.cards[3]) = "ok" =>
                  SlotMsgs(ev, cur.slot) =
                      <<Marshal("CARD_INSERTED", readCard(cur.cards[3]).card)>>

\* An insertion is reported after applet-missing, applet-missing, success.
C6_Witness ==
    Reported /\ SelectClasses(cur.cards) = <<"missing", "missing", "ok">>

\* C7: on a tick, CARD_REMOVED is emitted for a slot exactly when the connect
\* to the slot fails while its flag is true, and once; after a failed
\* connect the flag is false.
C7_RemovalOnEdgeOnly ==
    cur.slot # 0 =>
        /\ SlotMsgs(ev, cur.slot) =
               (IF cur.conn = "fail" /\ cur.was THEN OnCardRemoved
                ELSE OfType(SlotMsgs(ev, cur.slot), "CARD_INSERTED")
                         \o OfType(SlotMsgs(ev, cur.slot), "ERROR"))
        /\ OfType(SlotMsgs(ev, cur.slot), "CARD_REMOVED") =
               (IF cur.conn = "fail" /\ cur.was
                  THEN <<Marshal("CARD_REMOVED", Nil)>> ELSE <<>>)
        /\ cur.conn = "fail" => ~lastState[cur.slot]

\* A connect fails on a slot whose flag was true and CARD_REMOVED is emitted.
C7_Witness ==
    /\ cur.slot # 0 /\ cur.conn = "fail" /\ cur.was
    /\ OfType(SlotMsgs(ev, cur.slot), "CARD_REMOVED") # <<>>

\* C9: on every tick whose listing succeeds with no reader, exactly one ERROR
\* with code 1001 and the reader-not-found message is emitted, and no connect
\* is attempted.
C9_ReaderAbsenceReportedEveryTick ==
    listed = "empty" =>
        /\ mpc \in {"noReaderHandler", "tick"}
        /\ mpc = "noReaderHandler" =>
               ev = <<[slot |-> 0,
                       msg |-> Marshal("ERROR", [code |-> ErrCodeReaderNotFound,
                                                 message |-> ErrMsgReaderNotFound])] >>
        /\ cur = NoCur
        /\ seen = {}

\* The second of two consecutive ticks without reader is being reported.
C9_Witness ==
    emptyRun >= 2 /\ listed = "empty" /\ mpc = "noReaderHandler" /\ Len(ev) = 1

\* C14: a tick on which the listing fails emits no event, attempts no
\* connect and changes no presence flag, and leaves monitorLoop at the top
\* of its loop, where the next listing can again fail, be empty or succeed:
\* the listing is retried whatever the number of failures before.
C14_ListingFailureSilent ==
    /\ [](listed = "err" =>
             /\ mpc = "tick"
             /\ ev = <<>> /\ outbox = <<>> /\ broadcast = Nil
             /\ cur = NoCur /\ seen = {} /\ card = Nil /\ readers = <<>>
             /\ ENABLED ListReadersError
             /\ ENABLED ListReadersEmpty
             /\ ENABLED (\E rs \in ReaderLists : ListReaders(rs)))
    /\ [][listed' = "err" => UNCHANGED <<lastState, broadcast, outbox, card>>]_vars

\* The listing has failed on a tick that follows the insertion of a card:
\* the flag of its slot is still set.
C14_Witness ==
    listed = "err" /\ mpc = "tick" /\ \E s \in Slots : lastState[s]

\* The error table (domain/message.go:13-25) without its reserved entry.
EmittedErrors ==
    {[code |-> ErrCodeReaderNotFound, message |-> ErrMsgReaderNotFound],
     [code |-> ErrCodeReadFailed, message |-> ErrMsgReadFailed],
     [code |-> ErrCodeUnsupportedCard, message |-> ErrMsgUnsupportedCard]}

\* The ERROR events emitted in the visit or empty tick in progress, with the
\* one being offered to the hub.
ErrorEvents ==
    {e \in {ev[i] : i \in DOMAIN ev} \cup
            (IF broadcast = Nil THEN {} ELSE {[slot |-> cur.slot, msg |-> broadcast[1]]}) :
        e.msg.type = "ERROR"}

\* C15: every ERROR event carries code 1001, 1003 or 1004 with the message
\* of that code; code 1002 is never emitted; and code 1001 is emitted only on
\* a tick whose listing has no reader, for no slot.
C15_ErrorCodesFromTable ==
    \A e \in ErrorEvents :
        /\ e.msg.payload \in EmittedErrors
        /\ e.msg.payload.code # ErrCodeCardNotDetected
        /\ e.msg.payload.code = ErrCodeReaderNotFound =>
               listed = "empty" /\ e.slot = 0 /\ cur = NoCur

\* An ERROR with code 1003 is emitted for a card whose read has failed.
C15_Witness ==
    /\ Reported
    /\ \E e \in ErrorEvents :
           e.slot = cur.slot /\ e.msg.payload.code = ErrCodeReadFailed

(***************************************************************************)
(* Photo (SpecPhoto).                                                      *)
(***************************************************************************)

\* The data the card sends for the chunks from i on, up to the first chunk
\* that does not end with status 9000.
RECURSIVE SentFrom(_, _)
SentFrom(photo, i) ==
    IF i > 20 \/ FinalStatus(photo[i]) # <<144, 0>> THEN <<>>
    ELSE SubSeq(photo[i][1].rsp, 1, Len(photo[i][1].rsp) - 2) \o SentFrom(photo, i + 1)

\* s without its trailing padding bytes.
RECURSIVE Unpadded(_)
Unpadded(s) ==
    IF s # <<>> /\ s[Len(s)] = 32 THEN Unpadded(SubSeq(s, 1, Len(s) - 1)) ELSE s

\* s holds an end-of-image marker; s ends with one.
HasMarker(s) == \E i \in 1..(Len(s) - 1) : s[i] = 255 /\ s[i + 1] = 217
EndsWithMarker(s) == Len(s) >= 2 /\ s[Len(s) - 1] = 255 /\ s[Len(s)] = 217

\* C17 (as stated): when the concatenation of the chunks is X ++ FF D9 ++ P
\* with P made of padding bytes only, the photo is X ++ FF D9, whatever X is
\* and wherever the chunk boundaries fall; when the concatenation holds no
\* FF D9, the photo is the concatenation without its trailing padding bytes.
C17_PhotoEndsAtMarker ==
    call # Nil /\ call[1].fn = "readPhoto" =>
        LET sent == SentFrom(call[1].arg, 1)
        IN  /\ EndsWithMarker(Unpadded(sent)) => call[1].ret.data = Unpadded(sent)
            /\ ~HasMarker(sent) => call[1].ret.data = Unpadded(sent)

\* C26: in every interleaving the hub never sends on a closed queue and
\* never closes a queue twice (either would panic).  A closed queue belongs
\* to a client that is neither in the live set nor in the part of a snapshot
\* still to be visited; a queue is closed only by Hub.Run at its select,
\* only for a client of the live set, which leaves the live set in the same
\* step and never comes back; and a message is enqueued only on an open
\* queue, from the snapshot of the fan-out in progress.
C26_NoSendOnClosedNoDoubleClose ==
    /\ [](hpc # "panic")
    /\ [](\A c \in Clients : sendClosed[c] => c \notin clients /\ c \notin snap)
    /\ [][\A c \in Clients :
             /\ sendClosed'[c] /\ ~sendClosed[c] =>
                    hpc = "select" /\ c \in clients /\ c \notin clients'
             /\ sendClosed[c] => sendClosed'[c] /\ c \notin clients'
             /\ recv'[c] # recv[c] =>
                    hpc = "fanout" /\ c \in snap /\ ~sendClosed[c] /\ ~sendClosed'[c]]_vars

\* One client received a message, disconnected and had its queue closed; a
\* later broadcast was delivered to the other client only.
C26_Witness ==
    \E c, d \in Clients :
        /\ sendClosed[c] /\ c \notin clients /\ recv[c] # <<>>
        /\ d \in clients /\ fan[d] = "sent" /\ fan[c] = "none"
        /\ Len(recv[d]) > Len(recv[c])

(***************************************************************************)
(* Sessions and retries of the monitor (SpecMon).                          *)
(***************************************************************************)

\* C22 (as stated): when a selection attempt of an insertion fails with the
\* applet-missing status 6A82 and another attempt follows, the monitor has
\* disconnected the session with a card reset and opened a new one on the
\* slot before that attempt; and a retry loop that ended before its third
\* attempt on an applet-missing failure ended on a failed reconnect, with
\* the failure reported.
C22_ReconnectOnAppletMissing ==
    cur.cards # <<>> /\ SelectClass(cur.cards[Len(cur.cards)]) = "missing" =>
        /\ mpc = "readCard" =>
               /\ Len(sess) >= 3
               /\ SubSeq(sess, Len(sess) - 1, Len(sess)) = <<DisconnectReset, Connect>>
        /\ Reported /\ Len(cur.cards) < 3 =>
               /\ Len(sess) >= 3
               /\ SubSeq(sess, Len(sess) - 1, Len(sess)) = <<DisconnectReset, ConnectFailed>>
               /\ cur.handler[1].err # Nil

\* The positions of the read commands (instruction B0) of the fields and of
\* the photo chunks among the commands cmds.
ReadsIn(cmds) == {i \in DOMAIN cmds : cmds[i][2] = 176}

\* C23: in the visit of an insertion edge the select command is issued at
\* most 3 times, once per attempt; an attempt whose selection succeeds is
\* the last one, whatever its field and photo reads do, and the retry loop
\* is over after it; and no field read and no photo chunk read is issued
\* more than once, and none at all when no selection succeeded.
C23_RetriesConfinedToSelection ==
    /\ Len(cur.cards) <= 3
    /\ Count(cur.cmds, SelectCmd) = Len(cur.cards)
    /\ \A i \in DOMAIN cur.cards :
           SelectClass(cur.cards[i]) = "ok" =>
               i = Len(cur.cards) /\ mpc # "readCard" /\ Reported
    /\ \A i, j \in ReadsIn(cur.cmds) : cur.cmds[i] = cur.cmds[j] => i = j
    /\ ReadsIn(cur.cmds) # {} =>
           \E i \in DOMAIN cur.cards : SelectClass(cur.cards[i]) = "ok"

\* The first selection fails, the second succeeds on a card whose
\* date-of-birth read and first photo chunk fail: the loop ends there with a
\* record, two select commands and each read issued once.
C23_Witness ==
    /\ Reported
    /\ Len(cur.cards) = 2
    /\ SelectClass(cur.cards[1]) # "ok"
    /\ cur.cards[2] = WornCard
    /\ cur.handler[1].err = Nil
    /\ Count(cur.cmds, SelectCmd) = 2
    /\ Count(cur.cmds, ReadBinaryCmd(0, 217, 8)) = 1
    /\ Count(cur.cmds, <<128, 176, 1, 123, 2, 0, 255>>) = 1

\* C25: no session is held across ticks.  monitorLoop holds a session only
\* inside the visit of an insertion edge, between its Connect and the return
\* of the insert handler; every session ends with Disconnect(LeaveCard),
\* before the next reader is visited and before the sleep of the tick, also
\* on a tick that finds the flag of the slot already set; and
\* Disconnect(ResetCard) is called only after an applet-missing failure of a
\* read attempt.
C25_SessionReleasedEveryTick ==
    /\ [](mpc \in {"tick", "slots", "stopped"} => card = Nil)
    /\ [](card # Nil =>
             /\ mpc \in {"readCard", "insertHandler"}
             /\ sess # <<>> /\ sess[Len(sess)] = "Connect(ShareExclusive)")
    /\ [](card = Nil /\ sess # <<>> /\ sess[1] = "Connect(ShareExclusive)" =>
             sess[Len(sess)] = "Disconnect(LeaveCard)")
    /\ [](\A i \in DOMAIN sess :
             sess[i] = "Disconnect(ResetCard)" =>
                 \E k \in DOMAIN cur.cards : SelectClass(cur.cards[k]) = "missing")
    /\ [][card # Nil /\ card' = Nil =>
             sess' = Append(sess, "Disconnect(LeaveCard)")]_vars
    /\ [][card = Nil /\ card' = Nil /\ sess' # sess =>
             sess' \in {<<>>, <<"Connect(ShareExclusive) failed">>,
                        <<"Connect(ShareExclusive)", "Disconnect(LeaveCard)">>}]_vars

\* A tick has connected to a slot whose flag was already set, released the
\* session with the leave-card disposition and reached its sleep.
C25_Witness ==
    /\ mpc = "tick"
    /\ cur.conn = "ok" /\ cur.was
    /\ card = Nil
    /\ sess = <<"Connect(ShareExclusive)", "Disconnect(LeaveCard)">>

(***************************************************************************)
(* Date decoding (SpecDate).                                               *)
(***************************************************************************)

\* The number a string of decimal digits spells.
RECURSIVE Numeral(_)
Numeral(ds) ==
    IF ds = <<>> THEN 0 ELSE 10 * Numeral(SubSeq(ds, 1, Len(ds) - 1)) + (ds[Len(ds)] - 48)

\* The date field without the null bytes around it.
DateText(dateStr) ==
    LET keep == {i \in 1..Len(dateStr) : dateStr[i] # 0}
    IN  IF keep = {} THEN <<>>
        ELSE [i \in 1..(Max(keep) - Min(keep) + 1) |-> dateStr[Min(keep) + i - 1]]

\* A string of eight decimal digits.
EightDigits(str) == Len(str) = 8 /\ \A i \in 1..8 : str[i] \in 48..57

\* A year of four digits, a dash, the month, a dash, the day: ten
\* characters whose first four spell the year n.
IsoDate(str, n, month, day) ==
    /\ Len(str) = 10
    /\ \A i \in 1..4 : str[i] \in 48..57
    /\ Numeral(SubSeq(str, 1, 4)) = n
    /\ str[5] = 45 /\ SubSeq(str, 6, 7) = month
    /\ str[8] = 45 /\ SubSeq(str, 9, 10) = day

\* C21 (as stated): a date field of eight digits YYYYMMDD yields the year
\* YYYY - 543 as four digits, a dash, MM, a dash, DD; a field shorter than
\* eight characters once its null bytes are trimmed yields the empty string.
C21_DateDecoded ==
    call # Nil /\ call[1].fn = "formatDate" =>
        LET str == DateText(call[1].arg)
        IN  /\ Len(str) < 8 => call[1].ret = <<>>
            /\ EightDigits(str) =>
                   IsoDate(call[1].ret, Numeral(SubSeq(str, 1, 4)) - 543,
                           SubSeq(str, 5, 6), SubSeq(str, 7, 8))

(***************************************************************************)
(* Address tokenizer (SpecAddr).                                           *)
(***************************************************************************)

\* The interior segments of a raw address (all but the first and the last),
\* without the spaces around them.
InteriorSegments(addressStr) ==
    LET parts == Split(addressStr, 35)
    IN  IF Len(parts) < 3 THEN <<>>
        ELSE [i \in 1..(Len(parts) - 2) |-> TrimSpace(parts[i + 1])]

\* What a segment is by its first matching marker, in the order village,
\* alley, subdistrict, district, province.
SegmentKind(seg) ==
    IF seg = <<>> THEN "empty"
    ELSE IF HasPrefix(seg, MooThi) THEN "moo"
    ELSE IF HasPrefix(seg, Soi) THEN "soi"
    ELSE IF HasPrefix(seg, Tambon) \/ HasPrefix(seg, Khwaeng) THEN "subdistrict"
    ELSE IF HasPrefix(seg, Amphoe) \/ HasPrefix(seg, Khet) THEN "district"
    ELSE IF HasPrefix(seg, Changwat) THEN "province"
    ELSE "plain"

\* The positions of the segments of a kind.
OfKind(segs, kind) == {i \in DOMAIN segs : SegmentKind(segs[i]) = kind}

\* The fields of a record joined by spaces, each non-empty one with its
\* marker, the subdistrict and the district with the given synonyms.
Rebuilt(addr, subPrefix, disPrefix) ==
    LET item(text, marker) == IF text = <<>> THEN <<>> ELSE <<marker \o text>>
    IN  Join(item(addr.HouseNo, <<>>)
             \o item(addr.Moo, MooThi \o <<32>>)
             \o item(addr.Soi, Soi)
             \o item(addr.Street, <<>>)
             \o item(addr.Subdistrict, subPrefix)
             \o item(addr.District, disPrefix)
             \o item(addr.Province, Changwat))

\* The synonym a segment starts with: a, else b.
Detected(seg, a, b) == IF HasPrefix(seg, a) THEN a ELSE b

\* A call of ParseThaiAddress that returned a record.
Parsed == call # Nil /\ call[1].fn = "ParseThaiAddress" /\ call[1].ret # Nil

\* C18 (as stated): in the rebuilt fullAddress the subdistrict carries the
\* synonym its segment started with (ตำบล or แขวง) and the district the
\* synonym its segment started with (อำเภอ or เขต), whatever the other
\* segments contain.
C18_SynonymOfTheSegment ==
    Parsed =>
        LET segs == InteriorSegments(call[1].arg)
            addr == call[1].ret[1]
            subs == OfKind(segs, "subdistrict")
            diss == OfKind(segs, "district")
            subPrefix == IF subs = {} THEN Tambon
                         ELSE Detected(segs[Max(subs)], Tambon, Khwaeng)
            disPrefix == IF diss = {} THEN Amphoe
                         ELSE Detected(segs[Max(diss)], Amphoe, Khet)
        IN  addr.FullAddress = Rebuilt(addr, subPrefix, disPrefix)

\* The text that follows the marker m of a segment.
After(seg, m) == TrimSpace(TrimPrefix(seg, m))

\* The text that follows the synonym a segment starts with; when that text
\* starts with a synonym again, the text that follows it is a reading too.
AfterSynonym(seg, a, b) ==
    LET rest == TrimPrefix(seg, Detected(seg, a, b))
    IN  {TrimSpace(rest), TrimSpace(TrimPrefix(rest, a)), TrimSpace(TrimPrefix(rest, b))}

\* The fields of the documented example.
ExampleFields ==
    [HouseNo |-> <<50, 56, 47, 55, 48>>,
     Moo |-> <<>>,
     Soi |-> <<3626, 3640, 3586, 3586, 3640, 3617, 3623, 3636, 3607, 32,
               55, 48, 32, 3649, 3618, 3585, 32, 53, 45, 49>>,
     Street |-> <<>>,
     Subdistrict |-> <<3592, 3629, 3617, 3607, 3629, 3591>>,
     District |-> <<3592, 3629, 3617, 3607, 3629, 3591>>,
     Province |-> <<3585, 3619, 3640, 3591, 3648, 3607, 3614, 3617, 3627,
                    3634, 3609, 3588, 3619>>]

\* C19: for a raw address of two segments or more (segments taken without
\* the spaces around them), houseNo is the first segment; province is the
\* last segment, without its province marker if it has one, unless an
\* interior segment starts with the province marker, and then it is what
\* follows the marker in the last such segment; the last segment is not
\* classified as an interior one; each of moo, soi, subdistrict and district
\* is what follows the marker in the last interior segment whose first
\* matching marker, in the order village, alley, subdistrict, district,
\* province, is its own, and is empty without such a segment; street is the
\* first interior segment with no marker, and later ones are dropped; and
\* the documented example yields the documented fields.
C19_Classification ==
    Parsed /\ Len(Split(call[1].arg, 35)) >= 2 =>
        LET parts == Split(call[1].arg, 35)
            segs == InteriorSegments(call[1].arg)
            last == TrimSpace(parts[Len(parts)])
            addr == call[1].ret[1]
            moos == OfKind(segs, "moo")
            sois == OfKind(segs, "soi")
            subs == OfKind(segs, "subdistrict")
            diss == OfKind(segs, "district")
            pros == OfKind(segs, "province")
            plains == OfKind(segs, "plain")
        IN  /\ addr.HouseNo = TrimSpace(parts[1])
            /\ addr.Province = IF pros # {} THEN After(segs[Max(pros)], Changwat)
                                ELSE After(last, Changwat)
            /\ addr.Moo = IF moos = {} THEN <<>> ELSE After(segs[Max(moos)], MooThi)
            /\ addr.Soi = IF sois = {} THEN <<>> ELSE After(segs[Max(sois)], Soi)
            /\ IF subs = {} THEN addr.Subdistrict = <<>>
                ELSE addr.Subdistrict \in AfterSynonym(segs[Max(subs)], Tambon, Khwaeng)
            /\ IF diss = {} THEN addr.District = <<>>
                ELSE addr.District \in AfterSynonym(segs[Max(diss)], Amphoe, Khet)
            /\ addr.Street = IF plains = {} THEN <<>> ELSE segs[Min(plains)]
            /\ call[1].arg = ExampleAddress =>
                   \A f \in DOMAIN ExampleFields : addr[f] = ExampleFields[f]

\* Four segments: an unmarked one and a soi between a house number and an
\* unmarked last segment, which is the province and not the street.
C19_Witness ==
    /\ Parsed
    /\ call[1].arg = RawAddress(<< <<32, 57, 32>>, <<82>>, Soi \o <<83>>, <<32, 81, 32>> >>)
    /\ call[1].ret[1].HouseNo = <<57>>
    /\ call[1].ret[1].Street = <<82>>
    /\ call[1].ret[1].Soi = <<83>>
    /\ call[1].ret[1].Province = <<81>>

\* C20: for every non-empty raw address, fullAddress is the structured
\* fields that are not empty, in the order houseNo, moo, soi, street,
\* subdistrict, district, province, each with its marker (one of the two
\* synonyms for subdistrict and for district), joined by single spaces.  It
\* is rebuilt from the fields and never the raw input copied: it holds no
\* '#', it differs from a raw input of two segments or more, and it is empty
\* when every field is.  The empty raw address yields no record.
C20_FullAddressRebuilt ==
    call # Nil /\ call[1].fn = "ParseThaiAddress" =>
        /\ call[1].ret = Nil <=> call[1].arg = <<>>
        /\ call[1].ret # Nil =>
               LET addr == call[1].ret[1]
                   full == addr.FullAddress
               IN  /\ \E subPrefix \in {Tambon, Khwaeng}, disPrefix \in {Amphoe, Khet} :
                          full = Rebuilt(addr, subPrefix, disPrefix)
                   /\ \A i \in DOMAIN full : full[i] # 35
                   /\ Len(Split(call[1].arg, 35)) >= 2 => full # call[1].arg

\* The documented example yields the documented fullAddress: five of the
\* seven fields, with the synonyms แขวง and เขต.
C20_Witness ==
    /\ Parsed
    /\ call[1].arg = ExampleAddress
    /\ call[1].ret[1].FullAddress =
           Join(<<ExampleFields.HouseNo, Soi \o ExampleFields.Soi,
                  Khwaeng \o ExampleFields.Subdistrict, Khet \o ExampleFields.District,
                  Changwat \o ExampleFields.Province>>)

(***************************************************************************)
(* Stop signal (SpecStop).                                                 *)
(***************************************************************************)

\* C12: the stop signal takes effect only at a tick boundary.  monitorLoop
\* exits only from the select at the top of its loop, with no session held,
\* no reader of the listing left to visit and no event waiting to be handed
\* to the hub, so a read in progress and its emission are never cut short;
\* once StopMonitoring has returned the loop has exited; and after the exit
\* no handler runs: no event is emitted and no presence flag changes.
C12_StopAtTickBoundary ==
    /\ [](spc = "returned" => mpc = "stopped" /\ ~monitoring)
    /\ [](mpc = "stopped" =>
             /\ spc = "returned"
             /\ card = Nil /\ readers = <<>> /\ outbox = <<>> /\ broadcast = Nil)
    /\ [][mpc' = "stopped" /\ mpc # "stopped" =>
             /\ mpc = "tick"
             /\ UNCHANGED <<lastState, readers, card, outbox, broadcast, ev, cur>>]_vars
    /\ [][mpc = "stopped" =>
             UNCHANGED <<mpc, lastState, readers, card, outbox, broadcast, ev, cur>>]_vars

\* StopMonitoring was called while a card was being read or the insert
\* handler was emitting, and has returned: the loop has exited.
C12_Witness ==
    spc = "returned" /\ stopAt = "read" /\ mpc = "stopped"

(***************************************************************************)
(* Protocol engine (SpecCard).                                             *)
(***************************************************************************)

\* The error selectApplet returns for the applet-missing condition
\* (pcsc_reader.go:263).
AppletMissing == Err("applet not found (SW=6A82) - card may need reset")

\* The first response carries a status word 61xx.
AsksGetResponse(x) ==
    x[1].err = Nil /\ Len(x[1].rsp) >= 2 /\ x[1].rsp[Len(x[1].rsp) - 1] = 97

\* C16: selectApplet succeeds exactly when the final status is 9000 or 9710;
\* it fails with the applet-missing error exactly when the final status is
\* 6A82; any other final status, a transport error and a short response are
\* failures of another kind; and it transmits the select command once,
\* followed by exactly one GET RESPONSE of length xx when the first status is
\* 61xx (the status of that GET RESPONSE is final, also when it is 61xx) and
\* by nothing otherwise.
C16_SelectionClassified ==
    call # Nil /\ call[1].fn = "selectApplet" =>
        LET x == call[1].arg
            r == call[1].ret
            st == FinalStatus(x)
        IN  /\ r.err = Nil <=> st \in {<<144, 0>>, <<151, 16>>}
            /\ r.err = AppletMissing <=> st = <<106, 130>>
            /\ r.cmds = IF AsksGetResponse(x)
                          THEN <<SelectCmd, <<0, 192, 0, 0, x[1].rsp[Len(x[1].rsp)]>> >>
                          ELSE <<SelectCmd>>

\* The card answers 61xx to the select command and 9710 after data to the
\* GET RESPONSE: the selection succeeds with two commands transmitted.
C16_Witness ==
    /\ call # Nil /\ call[1].fn = "selectApplet"
    /\ AsksGetResponse(call[1].arg)
    /\ call[1].arg[2] = Rsp(<<1, 151, 16>>)
    /\ call[1].ret.err = Nil
    /\ Len(call[1].ret.cmds) = 2


\* The fields of the record each of the eight reads fills.
FieldsOf ==
    <<{"CitizenID"}, {"FirstNameTH", "LastNameTH"}, {"FirstNameEN", "LastNameEN"},
      {"DateOfBirth"}, {"Gender"}, {"IssueDate"}, {"ExpireDate"}, {"Address"}>>

\* The field reads of card that do not end with status 9000.
FailedReads(c) == {i \in 1..8 : FinalStatus(c.fields[i]) # <<144, 0>>}

\* C8: once the selection has succeeded, readCard returns a record and no
\* error whatever reads fail: the fields of a read that did not end with
\* status 9000 are empty, the photo is empty if its first chunk failed, each
\* of the eight field reads is issued once, and the handler emits no ERROR.
C8_FieldFailuresNotFatal ==
    result # Nil /\ SelectClass(inCard[1]) = "ok" =>
        LET r == result[1].read
        IN  /\ r.err = Nil
            /\ r.card # Nil
            /\ \A i \in FailedReads(inCard[1]) :
                   \A f \in FieldsOf[i] : r.card[1][f] = EmptyCard[f]
            /\ FinalStatus(inCard[1].photo[1]) # <<144, 0>> =>
                   r.card[1].PhotoBase64 = EmptyCard.PhotoBase64
            /\ \A i \in 1..8 :
                   Count(r.cmds, ReadBinaryCmd(FieldReads[i][1], FieldReads[i][2],
                                               FieldReads[i][3])) = 1
            /\ OfType(result[1].msgs, "ERROR") = <<>>
            /\ Len(result[1].msgs) = 1

\* The selection succeeds, the first read fails, the last one succeeds, and
\* the record carries the address and no citizen id.
C8_Witness ==
    /\ result # Nil
    /\ SelectClass(inCard[1]) = "ok"
    /\ 1 \in FailedReads(inCard[1])
    /\ 8 \notin FailedReads(inCard[1])
    /\ result[1].read.card # Nil
    /\ result[1].read.card[1].Address # Nil
    /\ result[1].read.card[1].CitizenID = <<>>

\* The read commands of photo chunks (instruction B0, length FF) among cmds,
\* in order.
PhotoReads(cmds) == SelectSeq(cmds, LAMBDA c : Len(c) = 7 /\ c[2] = 176 /\ c[7] = 255)

\* The photo chunks of card whose read does not end with status 9000.
FailedChunks(c) == {i \in 1..20 : FinalStatus(c.photo[i]) # <<144, 0>>}

\* C24: once the selection has succeeded, the photo chunks are requested in
\* the order 1, 2, ... up to and including the first chunk whose read fails
\* (all 20 if none fails) and no chunk after it; the photo is cut from the
\* concatenation, in order, of the chunks before that one: it ends at an
\* end-of-image marker of the concatenation, or is the concatenation less its
\* trailing padding when there is no marker; the record is produced without
\* error, its photo field empty when the photo is empty and the base64 text
\* of the photo otherwise.
C24_PhotoChunkSequence ==
    result # Nil /\ SelectClass(inCard[1]) = "ok" =>
        LET r == result[1].read
            failed == FailedChunks(inCard[1])
            last == IF failed = {} THEN 20 ELSE Min(failed)
            sent == SentFrom(inCard[1].photo, 1)
        IN  /\ PhotoReads(r.cmds) = [i \in 1..last |-> <<128, 176, i, 124 - i, 2, 0, 255>>]
            /\ r.err = Nil /\ r.card # Nil
            /\ OfType(result[1].msgs, "ERROR") = <<>>
            /\ \E n \in 0..Len(sent) :
                   LET data == SubSeq(sent, 1, n)
                   IN  /\ IF HasMarker(sent) THEN EndsWithMarker(data)
                          ELSE data = Unpadded(sent)
                       /\ r.card[1].PhotoBase64 =
                              IF data = <<>> THEN <<>> ELSE EncodeToString(data)

\* The third chunk fails on a failing GET RESPONSE: three chunk reads are
\* issued and the record carries the photo of the first two chunks.
C24_Witness ==
    /\ result # Nil
    /\ SelectClass(inCard[1]) = "ok"
    /\ FailedChunks(inCard[1]) = 3..20
    /\ inCard[1].photo[3] = More(Status(105, 130))
    /\ Len(PhotoReads(result[1].read.cmds)) = 3
    /\ result[1].read.card[1].PhotoBase64 = EncodeToString(<<255, 216, 255, 217>>)

\* The step offers to the hub an event of slot s whose type is in kinds.
Emits(s, kinds) ==
    /\ Len(ev') > Len(ev)
    /\ ev'[Len(ev')].slot = s
    /\ ev'[Len(ev')].msg.type \in kinds

\* C27: in one run of monitorLoop and for each slot, insertion events
\* (CARD_INSERTED or the ERROR of an insertion) and CARD_REMOVED events
\* strictly alternate, starting with an insertion: CARD_REMOVED is emitted
\* only when the last event of the slot is an insertion, and an insertion
\* event only when the slot has had no event or its last one is CARD_REMOVED.
\* The slot is the watched one, which is any slot.
C27_EventsAlternate ==
    [][/\ Emits(watch', {"CARD_REMOVED"}) =>
              lastEvent = "insertion" /\ lastEvent' = "removal"
       /\ Emits(watch', {"CARD_INSERTED", "ERROR"}) =>
              lastEvent \in {"none", "removal"} /\ lastEvent' = "insertion"
       /\ lastEvent' # lastEvent =>
              Emits(watch', {"CARD_INSERTED", "ERROR", "CARD_REMOVED"})]_vars

\* CARD_REMOVED is being emitted for a slot whose last event was an
\* insertion.
C27_Witness ==
    /\ mpc = "removeHandler" /\ cur.slot = watch /\ cur.was
    /\ SlotMsgs(ev, watch) = <<Marshal("CARD_REMOVED", Nil)>>
    /\ lastEvent = "removal" /\ ~lastState[watch]

\* C28: the flag of a slot changes, and CARD_REMOVED is emitted for it, only
\* in a step of a tick that lists the slot and has just attempted a connect
\* to it; a tick that lists no reader changes no flag and emits no
\* CARD_REMOVED; and a connect that succeeds after an earlier one that
\* succeeded, whatever ticks without the slot lie between them, finds the flag
\* set, reads nothing, calls no handler and emits nothing.
C28_FlagChangedOnlyWhenConnecting ==
    /\ [][\A s \in Slots :
             lastState'[s] # lastState[s] \/ Emits(s, {"CARD_REMOVED"}) =>
                 /\ mpc = "slots" /\ listed = "some" /\ Head(readers) = s
                 /\ cur'.slot = s /\ cur'.conn \in {"ok", "fail"}
                 /\ Emits(s, {"CARD_REMOVED"}) => cur'.conn = "fail"]_vars
    /\ [][listed' \in {"empty", "err"} =>
             /\ lastState' = lastState
             /\ lastEvent' = lastEvent
             /\ cur' = NoCur]_vars
    /\ [](cur.slot = watch /\ cur.conn = "ok" /\ okAtt >= 2 =>
             /\ cur.was /\ lastState[watch]
             /\ cur.cards = <<>> /\ cur.handler = Nil
             /\ SlotMsgs(ev, watch) = <<>>
             /\ lastEvent = "insertion")

\* A tick that lists no reader is reporting it while the flag of a slot
\* whose last connect succeeded is set and its last event is the insertion.
C28_Witness ==
    /\ listed = "empty" /\ mpc = "noReaderHandler" /\ Len(ev) = 1
    /\ okAtt >= 1 /\ lastState[watch] /\ lastEvent = "insertion"

(***************************************************************************)
(* Liveness (SpecService, SpecHubFair).                                    *)
(***************************************************************************)

\* C29: under fair scheduling, a StopMonitoring call made while monitoring
\* is active eventually returns and monitorLoop terminates, whatever the
\* hub and its subscribers are doing.
C29_StopEventuallyReturns ==
    (spc = "sending") ~> (spc = "returned" /\ mpc = "stopped")

\* C30: under fair scheduling, a registered subscriber whose ReadPump has
\* detected a disconnect is eventually out of the live set with its queue
\* closed, and its WritePump then finishes, whatever the other subscribers
\* are doing.
C30_DisconnectedSubscriberRemoved ==
    \A c \in Clients :
        (c \in clients /\ rpc[c] \in {"unregistering", "done"}) ~>
            (c \notin clients /\ sendClosed[c] /\ wpc[c] = "done")

(***************************************************************************)
(* Start and stop (SpecLife).                                              *)
(***************************************************************************)

\* C31: for any sequence of StartMonitoring and StopMonitoring calls made one
\* after another, at most one monitorLoop is running at any time, and one is
\* running exactly while r.monitoring is set; a StartMonitoring while
\* monitoring returns the "already monitoring" error and changes nothing; a
\* StopMonitoring while not monitoring returns at once and changes nothing; a
\* StartMonitoring after a stop starts one loop, at the top of its loop with
\* no slot present.
C31_AtMostOneLoop ==
    /\ [](loops \in {0, 1})
    /\ [](monitoring <=> loops = 1)
    /\ [](loops = 0 <=> mpc = "stopped")
    /\ [][call' # call /\ monitoring =>
             /\ call'[1].fn = "StartMonitoring"
             /\ call'[1].ret = <<"already monitoring">>
             /\ UNCHANGED monVars]_vars
    /\ [][monitoring' /\ ~monitoring =>
             /\ spc = "idle" /\ spc' = "idle"
             /\ loops = 0 /\ loops' = 1
             /\ mpc' = "tick"
             /\ \A s \in Slots : ~lastState'[s]
             /\ call'[1].fn = "StartMonitoring" /\ call'[1].ret = <<>>]_vars
    /\ [][spc = "idle" /\ spc' = "returned" =>
             /\ ~monitoring
             /\ UNCHANGED <<mpc, lastState, monitoring, loops>>]_vars
    /\ [][loops' # loops =>
             \/ loops' = loops + 1 /\ monitoring' /\ ~monitoring
             \/ loops' = loops - 1 /\ monitoring /\ ~monitoring'
                    /\ spc = "sending" /\ spc' = "returned"]_vars

\* A loop was stopped while it was reading a card, so with a slot present,
\* and StartMonitoring has since started a loop, which has no slot present;
\* a second StartMonitoring after it has been refused.
C31_Witness ==
    /\ stopAt = "read" /\ spc = "idle"
    /\ call # Nil /\ call[1].ret = <<"already monitoring">>
    /\ monitoring /\ loops = 1 /\ mpc = "tick" /\ listed = "none"
    /\ \A s \in Slots : ~lastState[s]


====
